---- MODULE Spec2Model ----
(***************************************************************************)
(* Model of the chess-variant rules engine of Chess/ChessEngine.py:        *)
(* GameState (board, logs, cached king squares, analysis fields), Move,    *)
(* the pin/check analyzer, the per-piece move generators, get_valid_moves, *)
(* make_move and undo_move.                                                *)
(*                                                                         *)
(* Rows and columns are 0..7 as in the source (row 0 = black's back rank). *)
(* A piece is the two-character string of the source ("wK", "--", ...);    *)
(* Colour and Kind stand for piece[0] and piece[1].  The empty tuple ()    *)
(* of the source is <<>>.                                                  *)
(***************************************************************************)
EXTENDS Integers, Sequences, FiniteSets, TLC

VARIABLES
    game_state,    \* the GameState object: a record of its fields
    valid_moves,   \* the caller's copy of the last get_valid_moves result
    last_call,     \* the method of the object the caller invoked last
    main           \* the other local variables of ChessMain.main: a record

vars == <<game_state, valid_moves, last_call, main>>

(***************************************************************************)
(* Pieces and the board.                                                   *)
(***************************************************************************)
WhitePieces == {"wP", "wR", "wN", "wB", "wQ", "wK"}

BlackPieces == {"bP", "bR", "bN", "bB", "bQ", "bK"}

\* piece[0]
Colour(piece) ==
    IF piece \in WhitePieces THEN "w" ELSE IF piece \in BlackPieces THEN "b" ELSE "-"

\* piece[1]
Kind(piece) ==
    CASE piece \in {"wP", "bP"} -> "P"
      [] piece \in {"wR", "bR"} -> "R"
      [] piece \in {"wN", "bN"} -> "N"
      [] piece \in {"wB", "bB"} -> "B"
      [] piece \in {"wQ", "bQ"} -> "Q"
      [] piece \in {"wK", "bK"} -> "K"
      [] OTHER -> "-"

\* colour + kind, e.g. move.piece_moved[0] + promoted_piece
PieceOf(colour, kind) ==
    CHOOSE piece \in WhitePieces \cup BlackPieces : Colour(piece) = colour /\ Kind(piece) = kind

\* a python list row as a function on 0..7
Row8(a, b, c, d, e, f, g, h) ==
    [column \in 0..7 |-> <<a, b, c, d, e, f, g, h>>[column + 1]]

InitialBoard ==
    [row \in 0..7 |->
        CASE row = 0 -> Row8("bR", "bN", "bB", "bQ", "bK", "bB", "bN", "bR")
          [] row = 1 -> Row8("bP", "bP", "bP", "bP", "bP", "bP", "bP", "bP")
          [] row = 6 -> Row8("wP", "wP", "wP", "wP", "wP", "wP", "wP", "wP")
          [] row = 7 -> Row8("wR", "wN", "wB", "wQ", "wK", "wB", "wN", "wR")
          [] OTHER   -> Row8("--", "--", "--", "--", "--", "--", "--", "--")]

\* 0 <= end_row < len(self.board) and 0 <= end_column < len(self.board)
OnBoard(row, column) == row \in 0..7 /\ column \in 0..7

\* self.board[row][column] = piece
SetSquare(b, row, column, piece) == [b EXCEPT ![row][column] = piece]

\* CastleRights(white_king_side, black_king_side, white_queen_side, black_queen_side)
CastleRights(wks, bks, wqs, bqs) ==
    [white_king_side |-> wks, black_king_side |-> bks,
     white_queen_side |-> wqs, black_queen_side |-> bqs]

(***************************************************************************)
(* Move.                                                                   *)
(***************************************************************************)
\* the sum of the four coordinates in place of lines 629-632
move_id_unweighted(start_square, end_square) ==
    start_square[1] + start_square[2] + end_square[1] + end_square[2]

\* lines 629-632 of Move.__init__: self.move_id
move_id(start_square, end_square) ==
    start_square[1] * 1000 + start_square[2] * 100 + end_square[1] * 10 + end_square[2]

\* Move.__init__
Move(start_square, end_square, b, en_passant, pawn_promotion, castle) ==
    LET piece_moved == b[start_square[1]][start_square[2]]
        piece_captured ==
            IF en_passant
            THEN (IF piece_moved = "bP" THEN "wP" ELSE "bP")
            ELSE b[end_square[1]][end_square[2]]
    IN  [start_row |-> start_square[1], start_column |-> start_square[2],
         end_row |-> end_square[1], end_column |-> end_square[2],
         piece_moved |-> piece_moved,
         piece_captured |-> piece_captured,
         is_pawn_promotion |-> pawn_promotion,
         is_en_passant_move |-> en_passant,
         is_castle_move |-> castle,
         is_capture |-> (piece_captured # "--"),
         move_id |-> move_id(start_square, end_square)]

\* Move(start_square, end_square, board) with castle=True
PlainMoveMarkedCastle(start_square, end_square, b) ==
    Move(start_square, end_square, b, FALSE, FALSE, TRUE)

\* Move(start_square, end_square, board) with the default flags of line 614
PlainMove(start_square, end_square, b) ==
    Move(start_square, end_square, b, FALSE, FALSE, FALSE)

\* Move.__eq__
MoveEq(m1, m2) == m1.move_id = m2.move_id

\* Move.columns_to_files; a string is modelled as the sequence of its characters
columns_to_files ==
    [column \in 0..7 |-> <<"a", "b", "c", "d", "e", "f", "g", "h">>[column + 1]]

\* Move.rows_to_ranks
rows_to_ranks ==
    [row \in 0..7 |-> <<"8", "7", "6", "5", "4", "3", "2", "1">>[row + 1]]

\* Move.get_rank_file
get_rank_file(row, col) == <<columns_to_files[col], rows_to_ranks[row]>>

\* the pawn branch of __str__ without the tests of is_capture
PawnStrDestinationOnly(move, end_sq) == end_sq

\* lines 655-661 of Move.__str__: the pawn moves
PawnStr(move, end_sq) ==
    IF move.is_capture /\ move.is_pawn_promotion
    THEN end_sq \o <<"=", "R">>
    ELSE IF move.is_capture
         THEN <<columns_to_files[move.start_column], "x">> \o end_sq
         ELSE end_sq

\* Move.__str__
Str(move) ==
    IF move.is_castle_move
    THEN (IF move.end_column = 6 THEN <<"O", "-", "O">> ELSE <<"O", "-", "O", "-", "O">>)
    ELSE IF Kind(move.piece_moved) = "P"
         THEN PawnStr(move, get_rank_file(move.end_row, move.end_column))
         ELSE (<<Kind(move.piece_moved)>> \o (IF move.is_capture THEN <<"x">> ELSE <<>>))
              \o get_rank_file(move.end_row, move.end_column)

(***************************************************************************)
(* Attack/pin analyzer.                                                    *)
(***************************************************************************)
\* the direction tuples of check_for_pins_and_checks and square_under_attack,
\* indexed j = 0..7 as in the source
Directions ==
    << <<-1, 0>>, <<0, -1>>, <<1, 0>>, <<0, 1>>,
       <<-1, -1>>, <<-1, 1>>, <<1, -1>>, <<1, 1>> >>

KnightMoves ==
    << <<-2, -1>>, <<-2, 1>>, <<-1, -2>>, <<-1, 2>>,
       <<1, -2>>, <<1, 2>>, <<2, -1>>, <<2, 1>> >>

\* the attack test shared by the two scans: piece of kind piece_type, i squares
\* away along direction j, belonging to opponent
AttacksAlong(j, i, piece_type, opponent) ==
    \/ (0 <= j /\ j <= 3 /\ piece_type = "R")
    \/ (4 <= j /\ j <= 7 /\ piece_type = "B")
    \/ (i = 1 /\ piece_type = "P" /\
          ((opponent = "w" /\ 6 <= j /\ j <= 7) \/ (opponent = "b" /\ 4 <= j /\ j <= 5)))
    \/ piece_type = "Q"
    \/ (i = 1 /\ piece_type = "K")

\* for i in range(1, len(self.board)) with the break at the first square off
\* the board: the number of squares visited from (row, column) along d
Steps(row, column, d) ==
    Cardinality({i \in 1..7 : OnBoard(row + d[1] * i, column + d[2] * i)})

\* the least element of a non-empty set of numbers
Min(S) == CHOOSE i \in S : \A k \in S : i <= k

\* the first of the indexes S of a loop over 1..n; n + 1 when the loop meets none
FirstOf(S, n) == IF S = {} THEN n + 1 ELSE Min(S)

NoRayResult == [pins |-> <<>>, checks |-> <<>>]

\* what one direction j of check_for_pins_and_checks adds to pins and checks,
\* given the squares (as distances i along d) at which its scan does not pass
\* on: the first ally piece is possible_pin, and the scan ends at the second
\* ally piece or at the first enemy piece
PinCheckResult(b, start_row, start_column, j, d, opponent, stops) ==
    LET first == Min(stops)
        second == Min(stops \ {first})
        end_piece(i) == b[start_row + d[1] * i][start_column + d[2] * i]
        entry == <<start_row + d[1] * first, start_column + d[2] * first, d[1], d[2]>>
    IN  IF stops = {} THEN NoRayResult
        ELSE IF Colour(end_piece(first)) = opponent
        THEN IF AttacksAlong(j, first, Kind(end_piece(first)), opponent)
             THEN [pins |-> <<>>, checks |-> <<entry>>]
             ELSE NoRayResult
        ELSE IF /\ stops # {first}
                /\ Colour(end_piece(second)) = opponent
                /\ AttacksAlong(j, second, Kind(end_piece(second)), opponent)
        THEN [pins |-> <<entry>>, checks |-> <<>>]
        ELSE NoRayResult

\* one direction j of check_for_pins_and_checks: the scan passes over empty
\* squares and the ally king
PinCheckRay(b, start_row, start_column, j, ally, opponent) ==
    LET d == Directions[j + 1]
        Stops(i) ==
            LET end_piece == b[start_row + d[1] * i][start_column + d[2] * i]
            IN  \/ (Colour(end_piece) = ally /\ Kind(end_piece) # "K")
                \/ Colour(end_piece) = opponent
    IN  PinCheckResult(b, start_row, start_column, j, d, opponent,
                       {i \in 1..Steps(start_row, start_column, d) : Stops(i)})

\* the concatenation of f[1][field] .. f[8][field]
Concat8(f, field) ==
    ((f[1][field] \o f[2][field]) \o (f[3][field] \o f[4][field]))
    \o ((f[5][field] \o f[6][field]) \o (f[7][field] \o f[8][field]))

\* the knight part of check_for_pins_and_checks
KnightChecks(b, start_row, start_column, opponent) ==
    LET one == [k \in 1..8 |->
                  LET m == KnightMoves[k]
                      end_row == start_row + m[1]
                      end_column == start_column + m[2]
                  IN  IF OnBoard(end_row, end_column)
                         /\ Colour(b[end_row][end_column]) = opponent
                         /\ Kind(b[end_row][end_column]) = "N"
                      THEN [checks |-> << <<end_row, end_column, m[1], m[2]>> >>]
                      ELSE [checks |-> <<>>]]
    IN  Concat8(one, "checks")

\* return in_check, pins, checks: the entries of the eight directions in
\* order, then those of the knight squares
PinsAndChecks(rays, knight_checks) ==
    [in_check |-> Concat8(rays, "checks") \o knight_checks # <<>>,
     pins |-> Concat8(rays, "pins"),
     checks |-> Concat8(rays, "checks") \o knight_checks]

\* GameState.check_for_pins_and_checks
check_for_pins_and_checks(b, wtm, wkl, bkl) ==
    LET opponent == IF wtm THEN "b" ELSE "w"
        ally == IF wtm THEN "w" ELSE "b"
        start == IF wtm THEN wkl ELSE bkl
    IN  PinsAndChecks(
            [k \in 1..8 |-> PinCheckRay(b, start[1], start[2], k - 1, ally, opponent)],
            KnightChecks(b, start[1], start[2], opponent))

\* one direction j of square_under_attack, given the distances along d at
\* which there is a piece: the scan ends at the first piece
AttackAt(b, row, column, j, d, ally, opponent, stops) ==
    LET first == Min(stops)
        end_piece == b[row + d[1] * first][column + d[2] * first]
    IN  /\ stops # {}
        /\ Colour(end_piece) # ally
        /\ AttacksAlong(j, first, Kind(end_piece), opponent)

\* one direction j of square_under_attack
AttackRay(b, row, column, j, ally, opponent) ==
    LET d == Directions[j + 1]
        Stops(i) ==
            LET end_piece == b[row + d[1] * i][column + d[2] * i]
            IN  Colour(end_piece) = ally \/ Colour(end_piece) = opponent
    IN  AttackAt(b, row, column, j, d, ally, opponent,
                 {i \in 1..Steps(row, column, d) : Stops(i)})

\* square_under_attack scanning the first four directions only
square_under_attack_rook_lines_only(b, wtm, row, column, ally) ==
    LET opponent == IF wtm THEN "b" ELSE "w" IN
    \/ \E j \in 0..3 : AttackRay(b, row, column, j, ally, opponent)
    \/ \E k \in 1..8 :
          LET end_row == row + KnightMoves[k][1]
              end_column == column + KnightMoves[k][2]
          IN  /\ OnBoard(end_row, end_column)
              /\ Colour(b[end_row][end_column]) = opponent
              /\ Kind(b[end_row][end_column]) = "N"

\* GameState.square_under_attack
square_under_attack(b, wtm, row, column, ally) ==
    LET opponent == IF wtm THEN "b" ELSE "w" IN
    \/ \E j \in 0..7 : AttackRay(b, row, column, j, ally, opponent)
    \/ \E k \in 1..8 :
          LET end_row == row + KnightMoves[k][1]
              end_column == column + KnightMoves[k][2]
          IN  /\ OnBoard(end_row, end_column)
              /\ Colour(b[end_row][end_column]) = opponent
              /\ Kind(b[end_row][end_column]) = "N"

(***************************************************************************)
(* Move generator.  A generator takes the game-state fields it reads (gs), *)
(* the square, and the accumulator acc of what a generator may write: the  *)
(* moves list it appends to, the shared self.pins list it removes entries  *)
(* from, and the two cached king squares (get_king_moves overwrites and    *)
(* restores them); it returns the accumulator after the call.              *)
(***************************************************************************)
\* for i in range(len(self.pins) - 1, -1, -1): the first i found with
\* pins[i][0] == row and pins[i][1] == column (1-based; 0 when none)
LastPinIndex(pinlist, row, column) ==
    LET found == {i \in 1..Len(pinlist) : pinlist[i][1] = row /\ pinlist[i][2] = column}
    IN  IF found = {} THEN 0 ELSE CHOOSE i \in found : \A k \in found : k <= i

\* python list.remove(x): drops the first element equal to x
ListRemove(list, x) ==
    LET at == FirstOf({i \in 1..Len(list) : list[i] = x}, Len(list))
    IN  IF at > Len(list) THEN list
        ELSE SubSeq(list, 1, at - 1) \o SubSeq(list, at + 1, Len(list))

\* the inner loop without the test pin_direction == (-d[0], -d[1]) of lines
\* 367 and 425: a pinned piece slides away from the king only
SlideRayFromKingOnly(b, row, column, d, opponent, piece_pinned, pin_direction) ==
    IF ~piece_pinned \/ pin_direction = d
    THEN LET n == Steps(row, column, d)
             end_piece(i) == b[row + d[1] * i][column + d[2] * i]
             first == FirstOf({i \in 1..n : end_piece(i) # "--"}, n)
             last == IF first <= n /\ Colour(end_piece(first)) = opponent
                     THEN first ELSE first - 1
         IN  [i \in 1..last |->
                 PlainMove(<<row, column>>, <<row + d[1] * i, column + d[2] * i>>, b)]
    ELSE <<>>

\* the inner loop of get_rook_moves / get_bishop_moves for one direction d:
\* a move to every empty square up to the first piece, and to that piece's
\* square when it is an opponent's
SlideRay(b, row, column, d, opponent, piece_pinned, pin_direction) ==
    IF ~piece_pinned \/ pin_direction = d \/ pin_direction = <<-d[1], -d[2]>>
    THEN LET n == Steps(row, column, d)
             end_piece(i) == b[row + d[1] * i][column + d[2] * i]
             first == FirstOf({i \in 1..n : end_piece(i) # "--"}, n)
             last == IF first <= n /\ Colour(end_piece(first)) = opponent
                     THEN first ELSE first - 1
         IN  [i \in 1..last |->
                 PlainMove(<<row, column>>, <<row + d[1] * i, column + d[2] * i>>, b)]
    ELSE <<>>

\* the moves of a slider over the four directions dirs, in order
SlideAll(b, row, column, dirs, opponent, piece_pinned, pin_direction) ==
    (SlideRay(b, row, column, dirs[1], opponent, piece_pinned, pin_direction)
     \o SlideRay(b, row, column, dirs[2], opponent, piece_pinned, pin_direction))
    \o (SlideRay(b, row, column, dirs[3], opponent, piece_pinned, pin_direction)
        \o SlideRay(b, row, column, dirs[4], opponent, piece_pinned, pin_direction))

\* GameState.get_rook_moves
get_rook_moves(gs, row, column, acc) ==
    LET opponent == IF gs.white_to_move THEN "b" ELSE "w"
        i == LastPinIndex(acc.pins, row, column)
        piece_pinned == i # 0
        pin_direction == IF piece_pinned THEN <<acc.pins[i][3], acc.pins[i][4]>> ELSE <<>>
        pins1 == IF piece_pinned /\ Kind(gs.board[row][column]) # "Q"
                 THEN ListRemove(acc.pins, acc.pins[i]) ELSE acc.pins
        directions == << <<-1, 0>>, <<0, -1>>, <<1, 0>>, <<0, 1>> >>
    IN  [moves |-> acc.moves \o SlideAll(gs.board, row, column, directions, opponent,
                                         piece_pinned, pin_direction),
         pins |-> pins1,
         white_king_location |-> acc.white_king_location,
         black_king_location |-> acc.black_king_location]

\* GameState.get_bishop_moves
get_bishop_moves(gs, row, column, acc) ==
    LET opponent == IF gs.white_to_move THEN "b" ELSE "w"
        i == LastPinIndex(acc.pins, row, column)
        piece_pinned == i # 0
        pin_direction == IF piece_pinned THEN <<acc.pins[i][3], acc.pins[i][4]>> ELSE <<>>
        pins1 == IF piece_pinned THEN ListRemove(acc.pins, acc.pins[i]) ELSE acc.pins
        directions == << <<-1, -1>>, <<-1, 1>>, <<1, 1>>, <<1, -1>> >>
    IN  [moves |-> acc.moves \o SlideAll(gs.board, row, column, directions, opponent,
                                         piece_pinned, pin_direction),
         pins |-> pins1,
         white_king_location |-> acc.white_king_location,
         black_king_location |-> acc.black_king_location]

\* get_queen_moves where line 442 calls get_bishop_moves a second time
get_queen_moves_diagonals_twice(gs, row, column, acc) ==
    get_bishop_moves(gs, row, column, get_bishop_moves(gs, row, column, acc))

\* GameState.get_queen_moves
get_queen_moves(gs, row, column, acc) ==
    get_rook_moves(gs, row, column, get_bishop_moves(gs, row, column, acc))

\* the direction loop of get_knight_moves
KnightFrom(b, row, column, opponent, piece_pinned) ==
    LET Lands(m) ==
            /\ OnBoard(row + m[1], column + m[2])
            /\ ~piece_pinned
            /\ (Colour(b[row + m[1]][column + m[2]]) = opponent
                \/ b[row + m[1]][column + m[2]] = "--")
        landings == SelectSeq(KnightMoves, Lands)
    IN  [k \in 1..Len(landings) |->
            PlainMove(<<row, column>>,
                      <<row + landings[k][1], column + landings[k][2]>>, b)]

\* GameState.get_knight_moves
get_knight_moves(gs, row, column, acc) ==
    LET opponent == IF gs.white_to_move THEN "b" ELSE "w"
        i == LastPinIndex(acc.pins, row, column)
        piece_pinned == i # 0
        pins1 == IF piece_pinned THEN ListRemove(acc.pins, acc.pins[i]) ELSE acc.pins
    IN  [moves |-> acc.moves \o KnightFrom(gs.board, row, column, opponent, piece_pinned),
         pins |-> pins1,
         white_king_location |-> acc.white_king_location,
         black_king_location |-> acc.black_king_location]

\* the offsets (row_moves[i], column_moves[i]) of get_king_moves, i = 0..7
KingOffsets ==
    << <<-1, -1>>, <<-1, 0>>, <<-1, 1>>, <<0, -1>>, <<0, 1>>, <<1, -1>>, <<1, 0>>, <<1, 1>> >>

\* get_king_moves without the revert of lines 463-467: the king cache stays
\* on the last destination that passed the analyzer
KingMovesAppendedCacheLeft(gs, row, column, acc, safe, probed) ==
    LET left == IF safe = <<>>
                THEN <<row, column>>
                ELSE <<row + safe[Len(safe)][1], column + safe[Len(safe)][2]>>
    IN  [acc EXCEPT
           !.moves = @ \o [k \in 1..Len(safe) |->
                              PlainMove(<<row, column>>,
                                        <<row + safe[k][1], column + safe[k][2]>>, gs.board)],
           !.white_king_location = IF gs.white_to_move /\ probed THEN left ELSE @,
           !.black_king_location = IF ~gs.white_to_move /\ probed THEN left ELSE @]

\* what get_king_moves leaves behind, given the offsets whose destination
\* passed the analyzer (safe) and whether any destination was tried (probed):
\* a move per safe destination, and the king cache set to (row, column)
KingMovesAppended(gs, row, column, acc, safe, probed) ==
    [acc EXCEPT
       !.moves = @ \o [k \in 1..Len(safe) |->
                          PlainMove(<<row, column>>,
                                    <<row + safe[k][1], column + safe[k][2]>>, gs.board)],
       !.white_king_location = IF gs.white_to_move /\ probed THEN <<row, column>> ELSE @,
       !.black_king_location = IF ~gs.white_to_move /\ probed THEN <<row, column>> ELSE @]

\* GameState.get_king_moves: for each destination that is on the board and not
\* an ally's, the king cache is set to it, the analyzer is run, and the cache
\* is set to (row, column)
get_king_moves(gs, row, column, acc) ==
    LET ally == IF gs.white_to_move THEN "w" ELSE "b"
        Probed(m) ==
            /\ OnBoard(row + m[1], column + m[2])
            /\ Colour(gs.board[row + m[1]][column + m[2]]) # ally
        Safe(m) ==
            /\ Probed(m)
            /\ ~check_for_pins_and_checks(
                    gs.board, gs.white_to_move,
                    IF gs.white_to_move THEN <<row + m[1], column + m[2]>>
                                        ELSE acc.white_king_location,
                    IF gs.white_to_move THEN acc.black_king_location
                                        ELSE <<row + m[1], column + m[2]>>).in_check
    IN  KingMovesAppended(gs, row, column, acc, SelectSeq(KingOffsets, Safe),
                          \E k \in 1..8 : Probed(KingOffsets[k]))

\* the rook count of get_pawn_moves taken as 0
RooksOnBoardNoneCounted(b, rook) == 0

\* the rook count of get_pawn_moves: sum(1 for r in self.board for piece in r if piece == rook)
RooksOnBoard(b, rook) ==
    Cardinality({sq \in (0..7) \X (0..7) : b[sq[1]][sq[2]] = rook})

\* the en passant test of get_pawn_moves for a capture towards column + side
\* (side = -1: lines 276-294, side = 1: lines 321-339): TRUE when the move is
\* appended.  pawn holds the locals of get_pawn_moves
EnPassantAppended(gs, row, column, side, pawn) ==
    /\ <<row + pawn.move_amount, column + side>> = gs.en_passant_possible
    /\ LET king_column == pawn.king_column
           inside_range ==
               IF king_column < column
               THEN (IF side = -1 THEN (king_column + 1)..(column - 2)
                                  ELSE (king_column + 1)..(column - 1))
               ELSE (IF side = -1 THEN (column + 1)..(king_column - 1)
                                  ELSE (column + 2)..(king_column - 1))
           outside_range ==
               IF king_column < column
               THEN (IF side = -1 THEN (column + 1)..7 ELSE (column + 2)..7)
               ELSE (IF side = -1 THEN 0..(column - 2) ELSE 0..(column - 1))
           IsAttacker(square) ==
               Colour(square) = pawn.opponent /\ (Kind(square) = "R" \/ Kind(square) = "Q")
           attacking_piece ==
               pawn.king_row = row /\ \E i \in outside_range : IsAttacker(gs.board[row][i])
           blocking_piece ==
               pawn.king_row = row /\
                 (\/ \E i \in inside_range : gs.board[row][i] # "--"
                  \/ \E i \in outside_range :
                        ~IsAttacker(gs.board[row][i]) /\ gs.board[row][i] # "--")
       IN  ~attacking_piece \/ blocking_piece

\* the appends with a promotion on the back row whatever the rook count
PawnMoveToAlwaysPromoting(gs, row, column, end_square, pawn) ==
    IF end_square[1] = pawn.back_row
    THEN <<Move(<<row, column>>, end_square, gs.board, FALSE, TRUE, FALSE)>>
    ELSE <<PlainMove(<<row, column>>, end_square, gs.board)>>

\* the appends of lines 236-248, 262-274 and 307-319: a move of the pawn to
\* end_square, a promotion on the back row when promotion is allowed, and no
\* move to the back row when it is not
PawnMoveTo(gs, row, column, end_square, pawn) ==
    IF end_square[1] = pawn.back_row /\ pawn.promotion_allowed
    THEN <<Move(<<row, column>>, end_square, gs.board, FALSE, TRUE, FALSE)>>
    ELSE IF end_square[1] # pawn.back_row
    THEN <<PlainMove(<<row, column>>, end_square, gs.board)>>
    ELSE <<>>

\* the "Capture to the left" (side = -1) / "Capture to the right" (side = 1)
\* block of get_pawn_moves
PawnCaptures(gs, row, column, side, pawn) ==
    IF /\ (IF side = -1 THEN column - 1 >= 0 ELSE column + 1 < 8)
       /\ 0 <= row + pawn.move_amount /\ row + pawn.move_amount < 8
       /\ (~pawn.piece_pinned \/ pawn.pin_direction = <<pawn.move_amount, side>>)
    THEN (IF Colour(gs.board[row + pawn.move_amount][column + side]) = pawn.opponent
          THEN PawnMoveTo(gs, row, column, <<row + pawn.move_amount, column + side>>, pawn)
          ELSE <<>>)
         \o (IF EnPassantAppended(gs, row, column, side, pawn)
             THEN <<Move(<<row, column>>, <<row + pawn.move_amount, column + side>>,
                         gs.board, TRUE, FALSE, FALSE)>>
             ELSE <<>>)
    ELSE <<>>

\* the advances of get_pawn_moves without the two-square step of lines 250-255
PawnAdvancesOneSquare(gs, row, column, pawn) ==
    IF /\ 0 <= row + pawn.move_amount /\ row + pawn.move_amount < 8
       /\ gs.board[row + pawn.move_amount][column] = "--"
       /\ ~pawn.piece_pinned \/ pawn.pin_direction = <<pawn.move_amount, 0>>
    THEN PawnMoveTo(gs, row, column, <<row + pawn.move_amount, column>>, pawn)
    ELSE <<>>

\* the "One-square forward" / "Two-square forward" block of get_pawn_moves
PawnAdvances(gs, row, column, pawn) ==
    IF /\ 0 <= row + pawn.move_amount /\ row + pawn.move_amount < 8
       /\ gs.board[row + pawn.move_amount][column] = "--"
    THEN (IF ~pawn.piece_pinned \/ pawn.pin_direction = <<pawn.move_amount, 0>>
          THEN PawnMoveTo(gs, row, column, <<row + pawn.move_amount, column>>, pawn)
          ELSE <<>>)
         \o (IF row = pawn.start_row /\ gs.board[row + 2 * pawn.move_amount][column] = "--"
             THEN <<PlainMove(<<row, column>>, <<row + 2 * pawn.move_amount, column>>,
                              gs.board)>>
             ELSE <<>>)
    ELSE <<>>

\* lines 204-230 of get_pawn_moves: the locals the rest of the function reads
PawnLocals(gs, row, column, acc) ==
    LET i == LastPinIndex(acc.pins, row, column)
        wtm == gs.white_to_move
        king == IF wtm THEN acc.white_king_location ELSE acc.black_king_location
    IN  [piece_pinned |-> i # 0,
         pin_direction |-> IF i # 0 THEN <<acc.pins[i][3], acc.pins[i][4]>> ELSE <<>>,
         pinned_at |-> i,
         move_amount |-> IF wtm THEN -1 ELSE 1,
         start_row |-> IF wtm THEN 6 ELSE 1,
         back_row |-> IF wtm THEN 0 ELSE 7,
         opponent |-> IF wtm THEN "b" ELSE "w",
         king_row |-> king[1],
         king_column |-> king[2],
         promotion_allowed |-> RooksOnBoard(gs.board, IF wtm THEN "wR" ELSE "bR") < 2]

\* lines 210 and 232-345 of get_pawn_moves
PawnMovesAppended(gs, row, column, acc, pawn) ==
    [acc EXCEPT
       !.moves = ((@ \o PawnAdvances(gs, row, column, pawn))
                  \o PawnCaptures(gs, row, column, -1, pawn))
                 \o PawnCaptures(gs, row, column, 1, pawn),
       !.pins = IF pawn.piece_pinned THEN ListRemove(@, @[pawn.pinned_at]) ELSE @]

\* GameState.get_pawn_moves
get_pawn_moves(gs, row, column, acc) ==
    PawnMovesAppended(gs, row, column, acc, PawnLocals(gs, row, column, acc))

\* self.move_functions[piece](row, column, moves)
MoveFunction(gs, piece, row, column, acc) ==
    CASE piece = "P" -> get_pawn_moves(gs, row, column, acc)
      [] piece = "R" -> get_rook_moves(gs, row, column, acc)
      [] piece = "N" -> get_knight_moves(gs, row, column, acc)
      [] piece = "B" -> get_bishop_moves(gs, row, column, acc)
      [] piece = "Q" -> get_queen_moves(gs, row, column, acc)
      [] piece = "K" -> get_king_moves(gs, row, column, acc)

\* the body of the row/column loops of get_all_possible_moves for the square
\* n = 8 * row + column
SquareMoves(gs, n, acc) ==
    LET row == n \div 8
        column == n % 8
        turn == Colour(gs.board[row][column])
    IN  IF (turn = "w" /\ gs.white_to_move) \/ (turn = "b" /\ ~gs.white_to_move)
        THEN MoveFunction(gs, Kind(gs.board[row][column]), row, column, acc)
        ELSE acc

RECURSIVE AllMovesFrom(_, _, _, _)
\* the row/column loops of get_all_possible_moves over the squares lo..hi in
\* row-major order.  (TLC evaluates an operator's arguments only when they are
\* used: the test on the first half makes it evaluate the iterations in the
\* order of the loop, one after the other, rather than nested in each other.)
AllMovesFrom(gs, lo, hi, acc) ==
    IF lo = hi THEN SquareMoves(gs, lo, acc)
    ELSE LET mid == (lo + hi) \div 2
             first_half == AllMovesFrom(gs, lo, mid, acc)
         IN  IF Len(first_half.moves) >= 0
             THEN AllMovesFrom(gs, mid + 1, hi, first_half)
             ELSE first_half

\* GameState.get_all_possible_moves (moves = [] on entry)
get_all_possible_moves(gs, acc) ==
    AllMovesFrom(gs, 0, 63, [acc EXCEPT !.moves = <<>>])

(***************************************************************************)
(* GameState controller.  A game state s is the record of the fields of    *)
(* the GameState object.                                                   *)
(***************************************************************************)
\* what the generators read of the object besides the accumulator
GenView(s) ==
    [board |-> s.board, white_to_move |-> s.white_to_move,
     en_passant_possible |-> s.en_passant_possible]

\* the valid_squares loop of get_valid_moves for a checker that is no knight:
\* the squares from the king along the check direction, up to the checker's
\* square (all seven of them when the loop never meets it)
ValidSquares(king_row, king_column, check) ==
    LET square(i) == <<king_row + check[3] * i, king_column + check[4] * i>>
        last == FirstOf({i \in 1..6 : square(i) = <<check[1], check[2]>>}, 6)
    IN  [i \in 1..last |-> square(i)]

\* lines 164-167 of get_valid_moves without the removal
FilterCheckNothingRemoved(moves, valid_squares) == moves

\* the removal loop of get_valid_moves, lines 164-167.  valid_moves.remove
\* drops the first entry with the move_id of valid_moves[i]; entries of one
\* move_id have the same origin, so the same piece, and the same destination,
\* so the loop tests them alike: it leaves the entries that pass the test
FilterCheck(moves, valid_squares) ==
    LET Kept(m) ==
            \/ Kind(m.piece_moved) = "K"
            \/ \E k \in 1..Len(valid_squares) : valid_squares[k] = <<m.end_row, m.end_column>>
    IN  SelectSeq(moves, Kept)

\* the terminal flags without the test of in_check of line 174
TerminalFlagsCheckmateOnly(s, moves, now_in_check) ==
    IF Len(moves) = 0
    THEN [checkmate |-> TRUE, stalemate |-> s.stalemate]
    ELSE [checkmate |-> FALSE, stalemate |-> FALSE]

\* get_valid_moves without lines 173-177: an empty list sets no flag
TerminalFlagsNeverSet(s, moves, now_in_check) ==
    [checkmate |-> FALSE, stalemate |-> FALSE]

\* lines 173-180 of get_valid_moves: the terminal flags
TerminalFlags(s, moves, now_in_check) ==
    IF Len(moves) = 0
    THEN IF now_in_check
         THEN [checkmate |-> TRUE, stalemate |-> s.stalemate]
         ELSE [checkmate |-> s.checkmate, stalemate |-> TRUE]
    ELSE [checkmate |-> FALSE, stalemate |-> FALSE]

\* lines 152-167 of get_valid_moves: the moves of get_all_possible_moves
\* (in all) that answer the single check
SingleCheckMoves(s, king, check, all) ==
    LET piece_checking == s.board[check[1]][check[2]]
        valid_squares ==
            IF Kind(piece_checking) = "N"
            THEN << <<check[1], check[2]>> >>
            ELSE ValidSquares(king[1], king[2], check)
    IN  [all EXCEPT !.moves = FilterCheck(@, valid_squares)]

\* the generation of get_valid_moves without the branch of lines 168-169:
\* every check is answered as the single check of lines 150-167
GeneratedMovesFirstCheckOnly(s, analysis) ==
    LET king == IF s.white_to_move THEN s.white_king_location ELSE s.black_king_location
        acc0 == [moves |-> <<>>, pins |-> analysis.pins,
                 white_king_location |-> s.white_king_location,
                 black_king_location |-> s.black_king_location]
    IN  IF analysis.in_check
        THEN SingleCheckMoves(s, king, analysis.checks[1],
                              get_all_possible_moves(GenView(s), acc0))
        ELSE get_all_possible_moves(GenView(s), acc0)

\* the generation of get_valid_moves where line 149 reads the in_check the
\* object held before line 142
GeneratedMovesOldInCheck(s, analysis) ==
    LET king == IF s.white_to_move THEN s.white_king_location ELSE s.black_king_location
        acc0 == [moves |-> <<>>, pins |-> analysis.pins,
                 white_king_location |-> s.white_king_location,
                 black_king_location |-> s.black_king_location]
    IN  IF s.in_check /\ analysis.checks # <<>>
        THEN IF Len(analysis.checks) = 1
             THEN SingleCheckMoves(s, king, analysis.checks[1],
                                   get_all_possible_moves(GenView(s), acc0))
             ELSE get_king_moves(GenView(s), king[1], king[2], acc0)
        ELSE get_all_possible_moves(GenView(s), acc0)

\* lines 144-171 of get_valid_moves: the list valid_moves, with what the
\* generators leave in self.pins and in the king cache
GeneratedMoves(s, analysis) ==
    LET king == IF s.white_to_move THEN s.white_king_location ELSE s.black_king_location
        acc0 == [moves |-> <<>>, pins |-> analysis.pins,
                 white_king_location |-> s.white_king_location,
                 black_king_location |-> s.black_king_location]
    IN  IF analysis.in_check
        THEN IF Len(analysis.checks) = 1
             THEN SingleCheckMoves(s, king, analysis.checks[1],
                                   get_all_possible_moves(GenView(s), acc0))
             ELSE get_king_moves(GenView(s), king[1], king[2], acc0)
        ELSE get_all_possible_moves(GenView(s), acc0)

\* the object and the result of get_valid_moves, given the analysis of line
\* 142 and what the generation of lines 144-171 produced (acc)
ValidMovesResult(s, analysis, acc) ==
    [object |-> [s EXCEPT !.in_check = analysis.in_check,
                          !.pins = acc.pins,
                          !.checks = analysis.checks,
                          !.white_king_location = acc.white_king_location,
                          !.black_king_location = acc.black_king_location,
                          !.checkmate = TerminalFlags(s, acc.moves, analysis.in_check).checkmate,
                          !.stalemate = TerminalFlags(s, acc.moves, analysis.in_check).stalemate],
     returned |-> acc.moves]

\* the part of get_valid_moves after line 142
ValidMovesAfter(s, analysis) ==
    ValidMovesResult(s, analysis, GeneratedMoves(s, analysis))

\* GameState.get_valid_moves: the object after the call (object) and the list
\* the call returns (returned)
get_valid_moves(s) ==
    ValidMovesAfter(s, check_for_pins_and_checks(s.board, s.white_to_move,
                                                 s.white_king_location,
                                                 s.black_king_location))

\* GameState.update_castle_rights: pass
update_castle_rights(s, move) == s

\* make_move without the append of lines 95-100
CastleRightsNotLogged(s) == s.castle_rights_log

\* lines 95-100 of make_move: self.castle_rights_log.append(CastleRights(...))
CastleRightsLogged(s) ==
    Append(s.castle_rights_log,
           CastleRights(s.white_castle_king_side, s.black_castle_king_side,
                        s.white_castle_queen_side, s.black_castle_queen_side))

\* make_move without the promotion of lines 74-78: the pawn stays a pawn
PromotionSkipped(b, move) == b

\* lines 74-78 of make_move: the pawn that promotes becomes a rook
PromotionApplied(b, move) ==
    IF move.is_pawn_promotion
    THEN SetSquare(b, move.end_row, move.end_column,
                   PieceOf(Colour(move.piece_moved), "R"))
    ELSE b

\* lines 84-88 of make_move without the test of the two rows
EnPassantTargetOfAnyPawnMove(move) ==
    IF Kind(move.piece_moved) = "P"
    THEN <<(move.start_row + move.end_row) \div 2, move.start_column>>
    ELSE <<>>

\* lines 84-88 of make_move: the value of self.en_passant_possible
EnPassantTarget(move) ==
    IF /\ Kind(move.piece_moved) = "P"
       /\ (move.start_row - move.end_row = 2 \/ move.start_row - move.end_row = -2)
    THEN <<(move.start_row + move.end_row) \div 2, move.start_column>>
    ELSE <<>>

\* GameState.make_move
make_move(s, move) ==
    LET b1 == SetSquare(SetSquare(s.board, move.start_row, move.start_column, "--"),
                        move.end_row, move.end_column, move.piece_moved)
        b2 == PromotionApplied(b1, move)
        b3 == IF move.is_en_passant_move
              THEN SetSquare(b2, move.start_row, move.end_column, "--")
              ELSE b2
        ep == EnPassantTarget(move)
        s1 == [s EXCEPT
                 !.board = b3,
                 !.move_log = Append(@, move),
                 !.white_king_location =
                     IF move.piece_moved = "wK" THEN <<move.end_row, move.end_column>> ELSE @,
                 !.black_king_location =
                     IF move.piece_moved = "bK" THEN <<move.end_row, move.end_column>> ELSE @,
                 !.en_passant_possible = ep,
                 !.en_passant_possible_log = Append(@, ep)]
    IN  [s1 EXCEPT
           !.castle_rights_log = CastleRightsLogged(update_castle_rights(s1, move)),
           !.white_to_move = ~@]

\* list.pop() without its result
Pop(list) == SubSeq(list, 1, Len(list) - 1)

\* the board of undo_move without the en passant branch of lines 120-122
UndoBoardCapturedOnEndSquare(b, move) ==
    SetSquare(SetSquare(b, move.start_row, move.start_column, move.piece_moved),
              move.end_row, move.end_column, move.piece_captured)

\* lines 109-110 and 119-122 of undo_move: the board
UndoBoard(b, move) ==
    LET b1 == SetSquare(SetSquare(b, move.start_row, move.start_column, move.piece_moved),
                        move.end_row, move.end_column, move.piece_captured)
    IN  IF move.is_en_passant_move
        THEN SetSquare(SetSquare(b1, move.end_row, move.end_column, "--"),
                       move.start_row, move.end_column, move.piece_captured)
        ELSE b1

\* the body of the test of line 106 where line 124 empties the en passant
\* target instead of reading the log
UndoLastTargetEmptied(s) ==
    LET move == s.move_log[Len(s.move_log)]
        ep_log == Pop(s.en_passant_possible_log)
        cr_log == Pop(s.castle_rights_log)
        castle_rights == cr_log[Len(cr_log)]
    IN  [s EXCEPT
           !.move_log = Pop(@),
           !.board = UndoBoard(@, move),
           !.white_to_move = ~@,
           !.white_king_location =
               IF move.piece_moved = "wK"
               THEN <<move.start_row, move.start_column>> ELSE @,
           !.black_king_location =
               IF move.piece_moved = "bK"
               THEN <<move.start_row, move.start_column>> ELSE @,
           !.en_passant_possible_log = ep_log,
           !.en_passant_possible = <<>>,
           !.castle_rights_log = cr_log,
           !.white_castle_king_side = castle_rights.white_king_side,
           !.black_castle_king_side = castle_rights.black_king_side,
           !.white_castle_queen_side = castle_rights.white_queen_side,
           !.black_castle_queen_side = castle_rights.black_queen_side,
           !.checkmate = FALSE,
           !.stalemate = FALSE]

\* the body of the test of line 106 without lines 136-137: the flags stay
UndoLastFlagsKept(s) ==
    LET move == s.move_log[Len(s.move_log)]
        ep_log == Pop(s.en_passant_possible_log)
        cr_log == Pop(s.castle_rights_log)
        castle_rights == cr_log[Len(cr_log)]
    IN  [s EXCEPT
           !.move_log = Pop(@),
           !.board = UndoBoard(@, move),
           !.white_to_move = ~@,
           !.white_king_location =
               IF move.piece_moved = "wK"
               THEN <<move.start_row, move.start_column>> ELSE @,
           !.black_king_location =
               IF move.piece_moved = "bK"
               THEN <<move.start_row, move.start_column>> ELSE @,
           !.en_passant_possible_log = ep_log,
           !.en_passant_possible = ep_log[Len(ep_log)],
           !.castle_rights_log = cr_log,
           !.white_castle_king_side = castle_rights.white_king_side,
           !.black_castle_king_side = castle_rights.black_king_side,
           !.white_castle_queen_side = castle_rights.white_queen_side,
           !.black_castle_queen_side = castle_rights.black_queen_side]

\* lines 107-137 of undo_move: the body of the test of line 106
UndoLast(s) ==
    LET move == s.move_log[Len(s.move_log)]
        ep_log == Pop(s.en_passant_possible_log)
        cr_log == Pop(s.castle_rights_log)
        castle_rights == cr_log[Len(cr_log)]
    IN  [s EXCEPT
           !.move_log = Pop(@),
           !.board = UndoBoard(@, move),
           !.white_to_move = ~@,
           !.white_king_location =
               IF move.piece_moved = "wK"
               THEN <<move.start_row, move.start_column>> ELSE @,
           !.black_king_location =
               IF move.piece_moved = "bK"
               THEN <<move.start_row, move.start_column>> ELSE @,
           !.en_passant_possible_log = ep_log,
           !.en_passant_possible = ep_log[Len(ep_log)],
           !.castle_rights_log = cr_log,
           !.white_castle_king_side = castle_rights.white_king_side,
           !.black_castle_king_side = castle_rights.black_king_side,
           !.white_castle_queen_side = castle_rights.white_queen_side,
           !.black_castle_queen_side = castle_rights.black_queen_side,
           !.checkmate = FALSE,
           !.stalemate = FALSE]

\* undo_move with the switch of the turn of line 111 ahead of the test of
\* line 106
undo_move_turn_switched_first(s) ==
    IF Len(s.move_log) # 0
    THEN UndoLast(s)
    ELSE [s EXCEPT !.white_to_move = ~@]

\* GameState.undo_move
undo_move(s) ==
    IF Len(s.move_log) # 0
    THEN UndoLast(s)
    ELSE s

\* GameState.__init__
NewGameState ==
    [board |-> InitialBoard,
     white_to_move |-> TRUE,
     move_log |-> <<>>,
     white_king_location |-> <<7, 4>>,
     black_king_location |-> <<0, 4>>,
     checkmate |-> FALSE,
     stalemate |-> FALSE,
     in_check |-> FALSE,
     pins |-> <<>>,
     checks |-> <<>>,
     en_passant_possible |-> <<>>,
     en_passant_possible_log |-> << <<>> >>,
     white_castle_king_side |-> FALSE,
     white_castle_queen_side |-> FALSE,
     black_castle_king_side |-> FALSE,
     black_castle_queen_side |-> FALSE,
     castle_rights_log |-> <<CastleRights(FALSE, FALSE, FALSE, FALSE)>>]

(***************************************************************************)
(* The caller.  The engine is driven as ChessMain.main drives it: the      *)
(* list returned by get_valid_moves is kept in valid_moves, a move applied *)
(* with make_move is taken from that list, and after make_move or          *)
(* undo_move the list is derived again before the next move.  Play is      *)
(* explored along the scripted games below, each step of which has to be a *)
(* member of the current legal-move list, followed by up to MaxFree        *)
(* arbitrary moves of that list.                                           *)
(***************************************************************************)
\* number of unscripted plies explored after the end of a scripted game
MaxFree == 1

\* no scripted moves: free play from GameState()
OpeningLine == <<>>

\* f2f3 e7e5 g2g4 d8h4 (fool's mate)
FoolsMateLine == <<6555, 1434, 6646, 347>>

\* e2e4 a7a6 f1b5 d7d5 b5e8 (the d7 pawn is pinned by the bishop on b5)
PinnedPawnLine == <<6444, 1020, 7531, 1333, 3104>>

\* c2c4 d7d6 h2h3 e8d7 h3h4 d7e6 d1a4 e6e5 a4e8 (the e7 pawn is pinned on its file)
FilePinLine == <<6242, 1323, 6757, 413, 5747, 1324, 7340, 2434, 4004>>

\* e2e3 a7a5 d1h5 a8a6 h5a5 h7h5 h2h4 a6h6 a5c7 f7f6 c7d7 e8f7 d7b7 d8d3 b7b8
\* d3h7 b8c8 f7g6 c8e6 (stalemate in ten moves)
StalemateLine ==
    <<6454, 1030, 7337, 20, 3730, 1737, 6747, 2027, 3012, 1525, 1213, 415, 1311,
      353, 1101, 5317, 102, 1526, 224>>

\* d2d3 e7e6 d1d2 f8b4 (the queen on d2 is pinned by the bishop on b4)
PinnedQueenLine == <<6353, 1424, 7363, 541>>

\* e2e4 a7a6 e4e5 d7d5 e5d6 (en passant)
EnPassantLine == <<6444, 1020, 4434, 1333, 3423>>

\* h2h4 b7b6 h4h5 c8b7 h5h6 b7g2 h6g7 g2h1 a2a3 g8f6 (White has lost a rook;
\* the pawn on g7 promotes on g8 or by a capture on f8 or h8)
PromotionLine == <<6747, 1121, 4737, 211, 3727, 1166, 2716, 6677, 6050, 625>>

\* h2h3 h7h5 d2d3 h5h4 a2a3 f7f6 a3a4 e8f7 a4a5 f7g6 b2b3 g6h5 b3b4 g7g6 g2g4
\* (the pawn on g4 gives check and can only be taken en passant)
EnPassantCheckLine ==
    <<6757, 1737, 6353, 3747, 6050, 1525, 5040, 415, 4030, 1526, 6151, 2637, 5141,
      1626, 6646>>

\* e2e4 h7h6 f1b5 h6h5 g1f3 h5h4 f3e5 h4h3 e5d7 e7e6 d7f6 (the knight gives
\* check on f6 and uncovers the check of the bishop on b5)
DoubleCheckLine ==
    <<6444, 1727, 7531, 2737, 7655, 3747, 5534, 4757, 3413, 1424, 1325>>

\* e2e4 a7a6 a2a3 d7d5 f1b5 (check by the bishop on b5, which can be taken
\* and blocked)
BishopCheckLine == <<6444, 1020, 6050, 1333, 7531>>

\* g1f3 a7a6 f3e5 a6a5 e5g4 a5a4 g4f6 (check by the knight on f6)
KnightCheckLine == <<7655, 1020, 5534, 2030, 3446, 3040, 4625>>

\* h2h4 b7b6 h4h5 c8b7 h5h6 a7a6 h6g7 a6a5 (a pawn on g7 beside f8 and h8,
\* with both white rooks on the board)
TwoRooksLine == <<6747, 1121, 4737, 211, 3727, 1020, 2716, 2030>>

\* d2d4 h7h5 d4d5 h8h6 e1d2 h6g6 d2c3 g6g5 c3b4 h5h4 b4a5 e7e5 (king a5, pawns
\* d5 and e5, rook g5: taking en passant uncovers the rook)
EnPassantRankLine ==
    <<6343, 1737, 4333, 727, 7463, 2726, 6352, 2636, 5241, 3747, 4130, 1434>>

\* d2d4 h7h5 d4d5 h8h6 e1d2 h6g6 d2c3 g6g5 c3b4 f7f6 b4a5 e7e5 (the same with
\* a pawn on h5, behind the rook on g5)
EnPassantRankBehindLine ==
    <<6343, 1737, 4333, 727, 7463, 2726, 6352, 2636, 5241, 1525, 4130, 1434>>

\* e2e4 d7d5 e4d5 e7e6 h2h4 e6d5 h1h3 d8e7 h3e3 a7a6 (the rook on e3 is pinned
\* on the e-file by the queen on e7)
PinnedRookLine == <<6444, 1333, 4433, 1424, 6747, 2433, 7757, 314, 5754, 1020>>

\* e2e4 d7d5 e4d5 e7e6 h2h4 e6d5 h1h3 d8e7 g1e2 a7a6 (the knight on e2 is
\* pinned on the e-file by the queen on e7)
PinnedKnightLine == <<6444, 1333, 4433, 1424, 6747, 2433, 7757, 314, 7664, 1020>>

\* e2e4 d7d5 e4d5 e7e6 e1e2 e6d5 h2h3 d8e7 (the queen on e7 checks the king on
\* e2 along the e-file; e1 behind the king is empty)
KingOnRayLine == <<6444, 1333, 4433, 1424, 7464, 2433, 6757, 314>>

\* e2e4 a7a6 f1b5 d7d5 b5e8 e7e6 b1c3 h7h6 c3b5 h6h5 c2c4 h5h4 d1a4 g7g6 b5c7
\* (the bishop has captured the king on e8 and stands on the cached square,
\* which the queen on a4 and the knight on c7 attack)
CapturedKingLine ==
    <<6444, 1020, 7531, 1333, 3104, 1424, 7152, 1727, 5231, 2737, 6242, 3747,
      7340, 1626, 3112>>

\* e2e4 d7d5 e4d5 c8g4 d1f3 e7e5 e1e2 e5e4 f3a3 g4e2 f1e2 e4e3 e2f3 e3e2 h2h3
\* g8f6 h3h4 f6e4 h4h5 d8e7 h5h6 e4g3
\* (the pinned queen leaves the diagonal and the bishop captures the king on
\* e2; a black pawn then walks onto the cached square e2, and the knight
\* uncovers the queen on e7: a double check on the cached square)
PawnOnKingSquareLine ==
    <<6444, 1333, 4433, 246, 7355, 1434, 7464, 3444, 5550, 4664, 7564, 4454,
      6455, 5464, 6757, 625, 5747, 2544, 4737, 314, 3727, 4456>>

Lines ==
    {CapturedKingLine, PawnOnKingSquareLine, PinnedRookLine, PinnedKnightLine, KingOnRayLine, OpeningLine, FoolsMateLine, PinnedPawnLine, FilePinLine, StalemateLine,
     PinnedQueenLine, EnPassantLine, PromotionLine, EnPassantCheckLine,
     DoubleCheckLine, BishopCheckLine, KnightCheckLine, TwoRooksLine,
     EnPassantRankLine, EnPassantRankBehindLine}

\* the move ids of a move log
Ids(log) == [k \in 1..Len(log) |-> log[k].move_id]

\* ids is the start of line
IsPrefix(ids, line) ==
    Len(ids) <= Len(line) /\ \A k \in 1..Len(ids) : ids[k] = line[k]

\* the play ids is explored: it follows a scripted game, or continues a
\* finished one by at most MaxFree moves
Explored(ids) ==
    \E line \in Lines :
        \/ IsPrefix(ids, line)
        \/ /\ Len(ids) > Len(line)
           /\ Len(ids) - Len(line) <= MaxFree
           /\ IsPrefix(line, ids)

\* the local variables of main before its loop (ChessMain.py lines 150-158);
\* () and None are <<>>, human_turn and extra_action are those of the first
\* frame, event is the event handled last and events the number of events
\* handled so far
MainLocals ==
    [move_made |-> FALSE,
     square_selected |-> <<>>,
     player_clicks |-> <<>>,
     pending_move |-> <<>>,
     game_over |-> FALSE,
     fallen_white |-> <<>>,
     fallen_black |-> <<>>,
     human_turn |-> TRUE,
     extra_action |-> "None",
     event |-> <<>>,
     events |-> 0]

\* game_state = ChessEngine.GameState()
Init ==
    /\ game_state = NewGameState
    /\ valid_moves = <<>>
    /\ last_call = "__init__"
    /\ main = MainLocals

\* valid_moves = game_state.get_valid_moves()
GetValidMoves ==
    /\ \E after \in {get_valid_moves(game_state)} :
          /\ game_state' = after.object
          /\ valid_moves' = after.returned
    /\ last_call' = "get_valid_moves"
    /\ UNCHANGED main

\* game_state.make_move(move) with a move of the legal-move list, which was
\* derived after the last change of the object
MakeMove ==
    /\ last_call = "get_valid_moves"
    /\ \E k \in 1..Len(valid_moves) :
          /\ Explored(Append(Ids(game_state.move_log), valid_moves[k].move_id))
          /\ game_state' = make_move(game_state, valid_moves[k])
    /\ valid_moves' = <<>>
    /\ last_call' = "make_move"
    /\ UNCHANGED main

\* game_state.undo_move()
UndoMove ==
    /\ game_state' = undo_move(game_state)
    /\ valid_moves' = <<>>
    /\ last_call' = "undo_move"
    /\ UNCHANGED main

Next == GetValidMoves \/ MakeMove \/ UndoMove

Spec == Init /\ [][Next]_vars

(***************************************************************************)
(* The rules of the game, stated on a board alone: which squares a piece   *)
(* attacks and which moves are legal.  The properties below compare the    *)
(* engine with them.                                                       *)
(***************************************************************************)
Squares == (0..7) \X (0..7)

Abs(x) == IF x < 0 THEN -x ELSE x

Sign(x) == IF x > 0 THEN 1 ELSE IF x < 0 THEN -1 ELSE 0

Other(colour) == IF colour = "w" THEN "b" ELSE "w"

\* the row direction in which the pawns of colour move
Forward(colour) == IF colour = "w" THEN -1 ELSE 1

\* from and to lie on one row, column or diagonal with only empty squares
\* strictly between them
ClearLine(b, from, to) ==
    LET dr == to[1] - from[1]
        dc == to[2] - from[2]
        n == IF Abs(dr) > Abs(dc) THEN Abs(dr) ELSE Abs(dc)
    IN  /\ (dr = 0 \/ dc = 0 \/ Abs(dr) = Abs(dc))
        /\ \A k \in 1..(n - 1) : b[from[1] + Sign(dr) * k][from[2] + Sign(dc) * k] = "--"

\* a piece of kind kind on from reaches to by its way of moving over the board
Reaches(b, kind, from, to) ==
    LET dr == to[1] - from[1]
        dc == to[2] - from[2]
    IN  /\ from # to
        /\ CASE kind = "N" -> {Abs(dr), Abs(dc)} = {1, 2}
             [] kind = "K" -> Abs(dr) <= 1 /\ Abs(dc) <= 1
             [] kind = "R" -> (dr = 0 \/ dc = 0) /\ ClearLine(b, from, to)
             [] kind = "B" -> Abs(dr) = Abs(dc) /\ ClearLine(b, from, to)
             [] kind = "Q" -> ClearLine(b, from, to)
             [] OTHER -> FALSE

\* the piece on from attacks the square to
Attacks(b, from, to) ==
    LET piece == b[from[1]][from[2]]
    IN  IF Kind(piece) = "P"
        THEN to[1] = from[1] + Forward(Colour(piece)) /\ Abs(to[2] - from[2]) = 1
        ELSE Reaches(b, Kind(piece), from, to)

\* a piece of colour attacks square
AttackedBy(b, colour, square) ==
    \E from \in Squares : Colour(b[from[1]][from[2]]) = colour /\ Attacks(b, from, square)

KingSquares(b, colour) == {sq \in Squares : b[sq[1]][sq[2]] = PieceOf(colour, "K")}

\* the king of colour is attacked by an enemy piece
KingAttacked(b, colour) ==
    \E sq \in KingSquares(b, colour) : AttackedBy(b, Other(colour), sq)

\* the move from -> to of the side colour obeys the movement and occupancy
\* rules of the variant on board b with en passant target ep: no castling,
\* and a pawn moves to the back rank only when its side has fewer than 2 rooks
ObeysRules(b, colour, ep, from, to) ==
    LET piece == b[from[1]][from[2]]
        target == b[to[1]][to[2]]
        dr == to[1] - from[1]
        dc == to[2] - from[2]
        fwd == Forward(colour)
    IN  /\ Colour(piece) = colour
        /\ Colour(target) # colour
        /\ IF Kind(piece) = "P"
           THEN /\ \/ dc = 0 /\ dr = fwd /\ target = "--"
                   \/ /\ dc = 0 /\ dr = 2 * fwd /\ target = "--"
                      /\ from[1] = (IF colour = "w" THEN 6 ELSE 1)
                      /\ b[from[1] + fwd][from[2]] = "--"
                   \/ Abs(dc) = 1 /\ dr = fwd /\ Colour(target) = Other(colour)
                   \/ Abs(dc) = 1 /\ dr = fwd /\ target = "--" /\ ep = to
                /\ to[1] = (IF colour = "w" THEN 0 ELSE 7)
                      => Cardinality({sq \in Squares :
                                         b[sq[1]][sq[2]] = PieceOf(colour, "R")}) < 2
           ELSE Reaches(b, Kind(piece), from, to)

\* the board after the move from -> to: a pawn taking en passant removes the
\* pawn beside it, a pawn reaching the back rank becomes a rook
BoardAfter(b, from, to) ==
    LET piece == b[from[1]][from[2]]
        en_passant == Kind(piece) = "P" /\ from[2] # to[2] /\ b[to[1]][to[2]] = "--"
        arrived == IF Kind(piece) = "P" /\ to[1] \in {0, 7}
                   THEN PieceOf(Colour(piece), "R") ELSE piece
    IN  [row \in 0..7 |-> [column \in 0..7 |->
            IF <<row, column>> = to THEN arrived
            ELSE IF <<row, column>> = from THEN "--"
            ELSE IF en_passant /\ <<row, column>> = <<from[1], to[2]>> THEN "--"
            ELSE b[row][column]]]

\* the moves from -> to that are legal for the side to move of game state s
LegalMoves(s) ==
    LET colour == IF s.white_to_move THEN "w" ELSE "b"
    IN  {mv \in Squares \X Squares :
            /\ ObeysRules(s.board, colour, s.en_passant_possible, mv[1], mv[2])
            /\ ~KingAttacked(BoardAfter(s.board, mv[1], mv[2]), colour)}

\* the move from -> to is in the list moves
Listed(moves, from, to) ==
    \E k \in 1..Len(moves) :
        /\ <<moves[k].start_row, moves[k].start_column>> = from
        /\ <<moves[k].end_row, moves[k].end_column>> = to

\* the colour of the side to move
SideToMove == IF game_state.white_to_move THEN "w" ELSE "b"

(***************************************************************************)
(* Properties.                                                             *)
(***************************************************************************)
\* C1 (no self-check): for every move m returned by get_valid_moves, after
\* make_move(m) the king of the side that just moved is not attacked by any
\* enemy piece.
NoSelfCheck ==
    last_call = "get_valid_moves" =>
        \A k \in 1..Len(valid_moves) :
            ~KingAttacked(make_move(game_state, valid_moves[k]).board, SideToMove)

\* C2 (no legal move missed): every move that obeys the movement and
\* occupancy rules of the variant and does not leave the mover's own king
\* attacked is in the list returned by get_valid_moves.
NoLegalMoveMissed ==
    last_call = "get_valid_moves" =>
        \A mv \in LegalMoves(game_state) : Listed(valid_moves, mv[1], mv[2])

\* undo_move after make_move(s, m) gives back s in the board, the side to
\* move, the en passant target, the castle rights, the cached king squares
\* and the three logs
UndoesMake(s, m) ==
    \E u \in {undo_move(make_move(s, m))} :
        /\ u.board = s.board
        /\ u.white_to_move = s.white_to_move
        /\ u.en_passant_possible = s.en_passant_possible
        /\ u.white_castle_king_side = s.white_castle_king_side
        /\ u.white_castle_queen_side = s.white_castle_queen_side
        /\ u.black_castle_king_side = s.black_castle_king_side
        /\ u.black_castle_queen_side = s.black_castle_queen_side
        /\ u.white_king_location = s.white_king_location
        /\ u.black_king_location = s.black_king_location
        /\ u.move_log = s.move_log
        /\ u.en_passant_possible_log = s.en_passant_possible_log
        /\ u.castle_rights_log = s.castle_rights_log

\* C3 (make/undo inverse law): for every move m of get_valid_moves, make_move(m)
\* followed by undo_move() yields a state equal to the one before in board,
\* side to move, en passant target, castle rights, cached king squares, move
\* log, en passant log and castle-rights log.
MakeUndoInverse ==
    last_call = "get_valid_moves" =>
        \A k \in 1..Len(valid_moves) : UndoesMake(game_state, valid_moves[k])

\* the legal-move list holds an en passant capture, whose undo has to put the
\* captured pawn back beside the capturing one
EnPassantOffered ==
    /\ last_call = "get_valid_moves"
    /\ \E k \in 1..Len(valid_moves) : valid_moves[k].is_en_passant_move

\* C4: the board contains exactly one white king and exactly one black king.
OneKingEach ==
    /\ Cardinality(KingSquares(game_state.board, "w")) = 1
    /\ Cardinality(KingSquares(game_state.board, "b")) = 1

\* C5: no move returned by get_valid_moves has a king as its captured piece.
NoKingCaptured ==
    last_call = "get_valid_moves" =>
        \A k \in 1..Len(valid_moves) : Kind(valid_moves[k].piece_captured) # "K"

\* C6: after any operation white_king_location is a square holding "wK" and
\* black_king_location is a square holding "bK".
KingCacheOnKing ==
    /\ game_state.board[game_state.white_king_location[1]]
                       [game_state.white_king_location[2]] = "wK"
    /\ game_state.board[game_state.black_king_location[1]]
                       [game_state.black_king_location[2]] = "bK"

\* C7 (log lockstep): after any sequence of make_move and undo_move calls,
\* undo_move on an empty history included, the en passant log and the
\* castle-rights log are each one entry longer than the move log.
LogLockstep ==
    /\ Len(game_state.en_passant_possible_log) = Len(game_state.move_log) + 1
    /\ Len(game_state.castle_rights_log) = Len(game_state.move_log) + 1

\* undo_move has returned with the history empty and the logs at their
\* initial entries
UndoneToEmptyHistory ==
    /\ last_call = "undo_move"
    /\ game_state.move_log = <<>>
    /\ Len(game_state.en_passant_possible_log) = 1
    /\ Len(game_state.castle_rights_log) = 1

\* C8 (check consistency): immediately after get_valid_moves, in_check is
\* true if and only if square_under_attack(king_row, king_column, colour of
\* the side to move) is true for the king square of the side to move.
CheckConsistency ==
    last_call = "get_valid_moves" =>
        LET king == IF game_state.white_to_move THEN game_state.white_king_location
                    ELSE game_state.black_king_location
        IN  game_state.in_check
            <=> square_under_attack(game_state.board, game_state.white_to_move,
                                    king[1], king[2], SideToMove)

\* get_valid_moves has found the side to move in check
CheckFound ==
    last_call = "get_valid_moves" /\ game_state.in_check

\* C9 (terminal detection): after every call of get_valid_moves, if the
\* returned list is empty then checkmate = in_check and stalemate = ~in_check;
\* if it is not empty then checkmate and stalemate are both false.
TerminalDetection ==
    last_call = "get_valid_moves" =>
        IF valid_moves = <<>>
        THEN /\ game_state.checkmate = game_state.in_check
             /\ game_state.stalemate = ~game_state.in_check
        ELSE ~game_state.checkmate /\ ~game_state.stalemate

\* get_valid_moves has returned the empty list to a side that is not in check
StalemateFound ==
    /\ last_call = "get_valid_moves"
    /\ valid_moves = <<>>
    /\ ~game_state.in_check

\* C10: checkmate and stalemate are never both true, and whenever either flag
\* is true the side to move has no legal move in the current position.
FlagsMeanNoLegalMove ==
    /\ ~(game_state.checkmate /\ game_state.stalemate)
    /\ (game_state.checkmate \/ game_state.stalemate) => LegalMoves(game_state) = {}


\* C11: when the analysis of get_valid_moves reports two or more checking
\* pieces on the king of the side to move, every move of the returned list
\* has that king as its moved piece
KingMovesOnlyInDoubleCheck ==
    (last_call = "get_valid_moves" /\ Len(game_state.checks) >= 2) =>
        \A k \in 1..Len(valid_moves) :
            valid_moves[k].piece_moved = PieceOf(SideToMove, "K")

\* a double check was answered with a non-empty list
DoubleCheckAnswered ==
    /\ last_call = "get_valid_moves"
    /\ Len(game_state.checks) >= 2
    /\ Len(valid_moves) >= 1


\* the king of the side to move, as the engine caches it
KingToMove ==
    IF game_state.white_to_move
    THEN game_state.white_king_location
    ELSE game_state.black_king_location

\* square lies on the straight line from a to b, strictly between them
StrictlyBetween(a, b, square) ==
    /\ a # b
    /\ \/ a[1] = b[1]
       \/ a[2] = b[2]
       \/ Abs(a[1] - b[1]) = Abs(a[2] - b[2])
    /\ \E t \in 1..7 :
          /\ t < Abs(a[1] - b[1]) \/ t < Abs(a[2] - b[2])
          /\ square = <<a[1] + t * Sign(b[1] - a[1]), a[2] + t * Sign(b[2] - a[2])>>

\* a move to square answers the check from checker: it captures the checking
\* piece or, with a rook, bishop or queen checking, steps between it and the king
AnswersCheck(b, king, checker, square) ==
    \/ square = checker
    \/ /\ Kind(b[checker[1]][checker[2]]) \in {"R", "B", "Q"}
       /\ StrictlyBetween(king, checker, square)

\* C12: when the analysis of get_valid_moves reports exactly one checking
\* piece, every returned move of a piece other than the king ends on the
\* square of the checking piece or, when that piece is a rook, bishop or
\* queen, on a square strictly between it and the king on the line of the
\* check; with a knight checking only its own square is left
SingleCheckAnswered ==
    (last_call = "get_valid_moves" /\ Len(game_state.checks) = 1) =>
        \A k \in 1..Len(valid_moves) :
            Kind(valid_moves[k].piece_moved) # "K" =>
                AnswersCheck(game_state.board, KingToMove,
                             <<game_state.checks[1][1], game_state.checks[1][2]>>,
                             <<valid_moves[k].end_row, valid_moves[k].end_column>>)

\* a single check by a bishop is answered by a capture of the bishop and by a
\* move between it and the king
CheckTakenAndBlocked ==
    /\ last_call = "get_valid_moves"
    /\ Len(game_state.checks) = 1
    /\ Kind(game_state.board[game_state.checks[1][1]][game_state.checks[1][2]]) = "B"
    /\ \E k \in 1..Len(valid_moves) :
          /\ Kind(valid_moves[k].piece_moved) # "K"
          /\ <<valid_moves[k].end_row, valid_moves[k].end_column>> =
                <<game_state.checks[1][1], game_state.checks[1][2]>>
    /\ \E k \in 1..Len(valid_moves) :
          /\ Kind(valid_moves[k].piece_moved) # "K"
          /\ StrictlyBetween(KingToMove,
                             <<game_state.checks[1][1], game_state.checks[1][2]>>,
                             <<valid_moves[k].end_row, valid_moves[k].end_column>>)


\* the rank on which the pawns of colour promote
PromotionRank(colour) == IF colour = "w" THEN 0 ELSE 7

\* the steps from -> to onto the promotion rank of colour: straight ahead or
\* one column aside
PromotionSteps(colour) ==
    {mv \in ({PromotionRank(colour) - Forward(colour)} \X (0..7))
              \X ({PromotionRank(colour)} \X (0..7)) :
        Abs(mv[1][2] - mv[2][2]) <= 1}

\* the number of rooks of colour on board b
RookCount(b, colour) ==
    Cardinality({sq \in Squares : b[sq[1]][sq[2]] = PieceOf(colour, "R")})

PromotionToRookAndBack ==
    last_call = "get_valid_moves" =>
        \A k \in 1..Len(valid_moves) :
            valid_moves[k].is_pawn_promotion =>
                LET m == valid_moves[k]
                    made == make_move(game_state, m)
                    undone == undo_move(made)
                IN  /\ made.board[m.end_row][m.end_column] = PieceOf(SideToMove, "R")
                    /\ undone.board[m.start_row][m.start_column] = PieceOf(SideToMove, "P")
                    /\ undone.board[m.end_row][m.end_column] =
                          game_state.board[m.end_row][m.end_column]
                    /\ undone.board = game_state.board

\* White, with one rook left, can promote by g7xh8: the move gives a rook on
\* h8, and its undo gives the state reached here by undo_move
PromotionUndone ==
    /\ last_call = "undo_move"
    /\ \E s \in {make_move(game_state, Move(<<1, 6>>, <<0, 7>>, game_state.board, FALSE, TRUE, FALSE))} :
          /\ game_state.white_to_move
          /\ RookCount(game_state.board, "w") < 2
          /\ game_state.board[1][6] = "wP"
          /\ game_state.board[0][7] = "bR"
          /\ s.board[0][7] = "wR"
          /\ undo_move(s) = game_state


\* board b without the pawn on from and the pawn beside it in column
WithoutPawns(b, from, column) ==
    SetSquare(SetSquare(b, from[1], from[2], "--"), from[1], column, "--")

\* on board b a rook or queen of colour attacks square king along its rank,
\* with nothing between them
RankAttack(b, colour, king) ==
    \E column \in 0..7 :
        /\ column # king[2]
        /\ b[king[1]][column] \in {PieceOf(colour, "R"), PieceOf(colour, "Q")}
        /\ ClearLine(b, king, <<king[1], column>>)

\* C15: when the king of the side to move, its capturing pawn and the pawn
\* to be captured stand on one rank and, with both pawns taken off, an enemy
\* rook or queen attacks the king along that rank with nothing between, the
\* list of get_valid_moves holds no en passant move of that pawn, whatever
\* stands beyond the attacking piece
NoEnPassantUncoveringRank ==
    last_call = "get_valid_moves" =>
        \A k \in 1..Len(valid_moves) :
            (valid_moves[k].is_en_passant_move /\ KingToMove[1] = valid_moves[k].start_row)
                => ~RankAttack(WithoutPawns(game_state.board,
                                            <<valid_moves[k].start_row, valid_moves[k].start_column>>,
                                            valid_moves[k].end_column),
                               Other(SideToMove), KingToMove)


\* the sum of the numbers of sequence counts
RECURSIVE SeqSum(_)
SeqSum(counts) ==
    IF counts = <<>> THEN 0 ELSE counts[1] + SeqSum(Tail(counts))

\* the sizes of the lists get_valid_moves returns after each move of moves
\* made in game state s
ReplyCounts(s, moves) ==
    [k \in 1..Len(moves) |-> Len(get_valid_moves(make_move(s, moves[k])).returned)]

\* C16: from GameState() get_valid_moves returns exactly 20 moves, and the
\* sizes of the lists it returns in the 20 positions reached by them add up
\* to exactly 400
OpeningMoveCounts ==
    (last_call = "get_valid_moves" /\ game_state.move_log = <<>>) =>
        /\ Len(valid_moves) = 20
        /\ SeqSum(ReplyCounts(game_state, valid_moves)) = 400

\* the list of the initial position has been derived
OpeningListDerived ==
    /\ last_call = "get_valid_moves"
    /\ game_state.move_log = <<>>
    /\ game_state.board = InitialBoard
    /\ game_state.white_to_move
    /\ valid_moves # <<>>


\* C17: after f2-f3, e7-e5, g2-g4, Qd8-h4 from the initial position, the next
\* get_valid_moves returns the empty list and leaves checkmate true and
\* stalemate false
FoolsMateIsCheckmate ==
    (last_call = "get_valid_moves" /\ Ids(game_state.move_log) = FoolsMateLine) =>
        /\ valid_moves = <<>>
        /\ game_state.checkmate
        /\ ~game_state.stalemate

\* get_valid_moves was called with the queen on h4 checking the king on e1
\* after the four moves
FoolsMatePlayed ==
    /\ last_call = "get_valid_moves"
    /\ Ids(game_state.move_log) = FoolsMateLine
    /\ game_state.board[4][7] = "bQ"
    /\ game_state.in_check


\* C18: undo_move on a game state with an empty move log raises no error and
\* changes no field: board, side to move, king coordinates, en passant
\* target, the three logs and the checkmate and stalemate flags stay as
\* they are
UndoOnEmptyLogIsNoOp ==
    game_state.move_log = <<>> => undo_move(game_state) = game_state

\* undo_move was called and left the object as GameState() builds it
UndoneWithNothingToUndo ==
    /\ last_call = "undo_move"
    /\ game_state = NewGameState


\* the four flags of a CastleRights object, or of the game state, are false
NoCastleRight(wks, bks, wqs, bqs) == ~wks /\ ~bks /\ ~wqs /\ ~bqs

\* C19: castling is disabled for good: no move returned by get_valid_moves
\* and no move of the move log has is_castle_move true, the four castle
\* right flags of the game state are false, and every entry of
\* castle_rights_log has its four flags false
CastlingDisabled ==
    /\ \A k \in 1..Len(valid_moves) : ~valid_moves[k].is_castle_move
    /\ \A k \in 1..Len(game_state.move_log) : ~game_state.move_log[k].is_castle_move
    /\ NoCastleRight(game_state.white_castle_king_side, game_state.black_castle_king_side,
                     game_state.white_castle_queen_side, game_state.black_castle_queen_side)
    /\ \A k \in 1..Len(game_state.castle_rights_log) :
          NoCastleRight(game_state.castle_rights_log[k].white_king_side,
                        game_state.castle_rights_log[k].black_king_side,
                        game_state.castle_rights_log[k].white_queen_side,
                        game_state.castle_rights_log[k].black_queen_side)

\* the list was derived for White with king e1 and rook h1 unmoved and f1 and
\* g1 empty, where chess would allow castling
CastlingWouldBeLegal ==
    /\ last_call = "get_valid_moves"
    /\ game_state.white_to_move
    /\ game_state.board[7][4] = "wK"
    /\ game_state.board[7][7] = "wR"
    /\ game_state.board[7][5] = "--"
    /\ game_state.board[7][6] = "--"
    /\ ~game_state.in_check
    /\ \A k \in 1..Len(game_state.move_log) :
          game_state.move_log[k].piece_moved \notin {"wK", "wR"}
    /\ Len(game_state.castle_rights_log) = Len(game_state.move_log) + 1
    /\ valid_moves # <<>>


(***************************************************************************)
(* Move objects on their own.  A move is constructed for every pair of     *)
(* squares; a second move is constructed with the coordinates of the first *)
(* kept or rearranged, on either of two boards and with any flags, and the *)
(* two are compared.                                                       *)
(***************************************************************************)
\* the boards the second move is constructed on: the initial one and the one
\* after e2e4
MoveBoards ==
    {InitialBoard,
     make_move(NewGameState, PlainMove(<<6, 4>>, <<4, 4>>, InitialBoard)).board}

\* the squares of move m, kept and rearranged
Rearranged(m) ==
    {<< <<m.start_row, m.start_column>>, <<m.end_row, m.end_column>> >>,
     << <<m.end_row, m.end_column>>, <<m.start_row, m.start_column>> >>,
     << <<m.start_column, m.start_row>>, <<m.end_column, m.end_row>> >>,
     << <<m.start_row, m.end_row>>, <<m.start_column, m.end_column>> >>}

\* Move(start_square, end_square, game_state.board) for any two squares
MoveInit ==
    /\ game_state = NewGameState
    /\ last_call = "Move"
    /\ main = MainLocals
    /\ \E start_square \in Squares : \E end_square \in Squares :
          valid_moves = <<PlainMove(start_square, end_square, game_state.board)>>

\* a second move is constructed, for move == other
CompareMoves ==
    /\ last_call = "Move"
    /\ \E squares \in Rearranged(valid_moves[1]) : \E b \in MoveBoards :
          \E en_passant \in BOOLEAN, pawn_promotion \in BOOLEAN, castle \in BOOLEAN :
              valid_moves' = <<valid_moves[1],
                               Move(squares[1], squares[2], b,
                                    en_passant, pawn_promotion, castle)>>
    /\ last_call' = "__eq__"
    /\ UNCHANGED <<game_state, main>>

MoveNext == CompareMoves

MoveSpec == MoveInit /\ [][MoveNext]_vars

\* the four coordinates of move m
Coordinates(m) == <<m.start_row, m.start_column, m.end_row, m.end_column>>

\* C20: move_id is injective on coordinates in 0..7: two moves have the same
\* move_id, and compare equal, exactly when their four coordinates are the
\* same, whatever their pieces and flags
MoveIdInjective ==
    /\ last_call = "Move" =>
          \A start_square \in Squares : \A end_square \in Squares :
              move_id(start_square, end_square) = valid_moves[1].move_id
                  <=> <<start_square[1], start_square[2], end_square[1], end_square[2]>>
                         = Coordinates(valid_moves[1])
    /\ last_call = "__eq__" =>
          /\ valid_moves[1].move_id = valid_moves[2].move_id
                <=> Coordinates(valid_moves[1]) = Coordinates(valid_moves[2])
          /\ MoveEq(valid_moves[1], valid_moves[2])
                <=> Coordinates(valid_moves[1]) = Coordinates(valid_moves[2])

\* two moves with the same coordinates and different pieces and flags were
\* compared
SameSquaresOtherPieces ==
    /\ last_call = "__eq__"
    /\ Coordinates(valid_moves[1]) = Coordinates(valid_moves[2])
    /\ valid_moves[1].piece_moved # valid_moves[2].piece_moved
    /\ valid_moves[1].is_castle_move # valid_moves[2].is_castle_move
    /\ valid_moves[1].is_en_passant_move # valid_moves[2].is_en_passant_move


(***************************************************************************)
(* Move objects constructed from coordinates on and off the board.  The    *)
(* board is a python list of 8 lists of 8 strings: an index of -8..-1      *)
(* counts from the end of the list, any other index outside 0..7 raises    *)
(* IndexError.                                                             *)
(***************************************************************************)
\* how far outside 0..7 the coordinates are drawn
Margin == 1

\* list[i] of a list of 8 items raises no IndexError
Indexable(i) == i \in -8..7

\* the position in 0..7 that list[i] reads
Wrapped(i) == IF i < 0 THEN i + 8 ELSE i

\* Move(start_square, end_square, board) for coordinates of any value: <<>>
\* when __init__ raises IndexError at line 617 or 618, else the one object
\* constructed
MoveConstructed(start_square, end_square, b) ==
    IF /\ Indexable(start_square[1]) /\ Indexable(start_square[2])
       /\ Indexable(end_square[1]) /\ Indexable(end_square[2])
    THEN <<[PlainMove(<<Wrapped(start_square[1]), Wrapped(start_square[2])>>,
                      <<Wrapped(end_square[1]), Wrapped(end_square[2])>>, b)
              EXCEPT !.start_row = start_square[1],
                     !.start_column = start_square[2],
                     !.end_row = end_square[1],
                     !.end_column = end_square[2],
                     !.move_id = move_id(start_square, end_square)]>>
    ELSE <<>>

\* the coordinates drawn: 0..7 and Margin values on either side
DrawnCoordinates == (0 - Margin)..(7 + Margin)

\* Move(start_square, end_square, game_state.board)
ConstructMove ==
    /\ last_call = "__init__"
    /\ \E start_square \in DrawnCoordinates \X DrawnCoordinates :
          \E end_square \in DrawnCoordinates \X DrawnCoordinates :
              /\ valid_moves' = MoveConstructed(start_square, end_square, game_state.board)
              /\ last_call' = IF valid_moves' = <<>> THEN "IndexError" ELSE "Move"
    /\ UNCHANGED <<game_state, main>>

ConstructNext == ConstructMove

ConstructSpec == Init /\ [][ConstructNext]_vars

\* C21: a Move is never constructed with a start or end coordinate outside
\* 0..7: the construction is rejected with an error, and a negative row or
\* column does not read another square of the board
OffBoardMoveRejected ==
    last_call = "Move" =>
        /\ valid_moves[1].start_row \in 0..7
        /\ valid_moves[1].start_column \in 0..7
        /\ valid_moves[1].end_row \in 0..7
        /\ valid_moves[1].end_column \in 0..7


\* the name of the square (row, column): file letter and rank digit
SquareName(row, column) ==
    <<(<<"a", "b", "c", "d", "e", "f", "g", "h">>)[column + 1],
      (<<"1", "2", "3", "4", "5", "6", "7", "8">>)[8 - row]>>

\* move m of the list derived on board b takes a piece: one on its
\* destination, or the pawn beside it en passant
Takes(b, m) == b[m.end_row][m.end_column] # "--" \/ m.is_en_passant_move

\* C22: the string form of every move of a legal-move list is the
\* destination square for a pawn move that captures nothing (a promotion
\* without capture included), origin file, "x" and destination for a pawn
\* capture that does not promote (en passant included), destination and "=R"
\* for a pawn capture that promotes, and for a move of another piece the
\* piece letter, "x" exactly when it captures, and the destination
NotationAsSpecified ==
    last_call = "get_valid_moves" =>
        \A k \in 1..Len(valid_moves) :
            LET m == valid_moves[k]
                destination == SquareName(m.end_row, m.end_column)
                captures == Takes(game_state.board, m)
            IN  Str(m) =
                    IF Kind(m.piece_moved) = "P"
                    THEN IF ~captures THEN destination
                         ELSE IF ~m.is_pawn_promotion
                              THEN <<SquareName(m.start_row, m.start_column)[1], "x">>
                                       \o destination
                              ELSE destination \o <<"=", "R">>
                    ELSE <<Kind(m.piece_moved)>>
                             \o (IF captures THEN <<"x">> ELSE <<>>) \o destination

\* the list holds a promotion by a capture and a promotion without capture
PromotionsInNotation ==
    /\ last_call = "get_valid_moves"
    /\ \E k \in 1..Len(valid_moves) :
          valid_moves[k].is_pawn_promotion /\ Str(valid_moves[k]) = <<"h", "8", "=", "R">>
    /\ \E k \in 1..Len(valid_moves) :
          valid_moves[k].is_pawn_promotion /\ Str(valid_moves[k]) = <<"g", "8">>


\* the pins the analyzer reports for the position of the game state
ReportedPins ==
    check_for_pins_and_checks(game_state.board, game_state.white_to_move,
                              game_state.white_king_location,
                              game_state.black_king_location).pins

\* square lies on the line from the king through the piece pinned by pin
OnPinLine(king, pin, square) ==
    \E t \in 1..7 : square = <<king[1] + t * pin[3], king[2] + t * pin[4]>>

\* every listed move of the pieces of kind kinds that the analyzer reports
\* as pinned ends on the line through the king and the pinning piece
PinnedStayOnLine(kinds) ==
    last_call = "get_valid_moves" =>
        \A i \in 1..Len(ReportedPins) : \A k \in 1..Len(valid_moves) :
            (/\ Kind(game_state.board[ReportedPins[i][1]][ReportedPins[i][2]]) \in kinds
             /\ <<valid_moves[k].start_row, valid_moves[k].start_column>>
                   = <<ReportedPins[i][1], ReportedPins[i][2]>>)
                => OnPinLine(KingToMove, ReportedPins[i],
                             <<valid_moves[k].end_row, valid_moves[k].end_column>>)

\* C23: every move generated for a pawn that the analyzer reports as pinned
\* (advance by one, advance by two from the starting rank, capture, en
\* passant) ends on the line through the king and the pinning piece; a pawn
\* on its starting rank pinned along a diagonal or its rank gets no advance
\* by two
PinnedPawnOnPinLine == PinnedStayOnLine({"P"})


\* C24: every move that get_queen_moves generates for a queen the analyzer
\* reports as pinned ends on the line through the king and the pinning
\* piece, whether the pin runs along a rank or file or along a diagonal
PinnedQueenOnPinLine == PinnedStayOnLine({"Q"})


\* the distance from the king of the piece pinned by pin
PinnedAt(king, pin) ==
    IF pin[1] # king[1] THEN Abs(pin[1] - king[1]) ELSE Abs(pin[2] - king[2])

\* the distance from the king of the piece that pins along pin on board b: the
\* first piece behind the pinned one
PinnerAt(b, king, pin) ==
    CHOOSE t \in (PinnedAt(king, pin) + 1)..7 :
        /\ OnBoard(king[1] + t * pin[3], king[2] + t * pin[4])
        /\ b[king[1] + t * pin[3]][king[2] + t * pin[4]] # "--"
        /\ \A u \in (PinnedAt(king, pin) + 1)..(t - 1) :
              b[king[1] + u * pin[3]][king[2] + u * pin[4]] = "--"

\* the squares a piece of kind kind pinned by pin may go to: for a rook on a
\* rank or file through the king and a bishop on a diagonal through it, the
\* squares between king and pinning piece and the square of the latter
PinSlides(b, king, pin, kind) ==
    IF \/ kind = "R" /\ (pin[3] = 0 \/ pin[4] = 0)
       \/ kind = "B" /\ pin[3] # 0 /\ pin[4] # 0
    THEN {<<king[1] + t * pin[3], king[2] + t * pin[4]>> :
              t \in (1..PinnerAt(b, king, pin)) \ {PinnedAt(king, pin)}}
    ELSE {}

\* the destinations of the moves of list moves that start on (row, column)
DestinationsFrom(moves, row, column) ==
    {<<moves[k].end_row, moves[k].end_column>> :
        k \in {j \in 1..Len(moves) : moves[j].start_row = row /\ moves[j].start_column = column}}

\* C25: a rook or bishop that the analyzer reports as pinned gets exactly
\* the slides along the pin line that its way of moving allows, towards the
\* king and towards the pinning piece up to its capture, and no other move;
\* a pinned knight gets no move.  The list is the generated one when the
\* king is not in check
PinnedPieceMoves ==
    (last_call = "get_valid_moves" /\ ~game_state.in_check) =>
        \A i \in 1..Len(ReportedPins) :
            Kind(game_state.board[ReportedPins[i][1]][ReportedPins[i][2]]) \in {"R", "B", "N"}
                => DestinationsFrom(valid_moves, ReportedPins[i][1], ReportedPins[i][2])
                     = PinSlides(game_state.board, KingToMove, ReportedPins[i],
                                 Kind(game_state.board[ReportedPins[i][1]][ReportedPins[i][2]]))

\* the kinds of the pieces that the analyzer reports as pinned
PinnedKinds ==
    {Kind(game_state.board[ReportedPins[i][1]][ReportedPins[i][2]]) : i \in 1..Len(ReportedPins)}

\* the list was derived with a rook pinned on the file of the king, which can
\* slide towards the king and up to the pinning piece
RookPinnedOnFile ==
    /\ last_call = "get_valid_moves"
    /\ ~game_state.in_check
    /\ "R" \in PinnedKinds
    /\ \E i \in 1..Len(ReportedPins) :
          /\ Kind(game_state.board[ReportedPins[i][1]][ReportedPins[i][2]]) = "R"
          /\ Cardinality(DestinationsFrom(valid_moves, ReportedPins[i][1],
                                          ReportedPins[i][2])) >= 3


\* move m is an advance of a pawn by two squares
TwoSquareAdvance(m) == Kind(m.piece_moved) = "P" /\ Abs(m.start_row - m.end_row) = 2

\* the last move executed in the game state
LastMove == game_state.move_log[Len(game_state.move_log)]

\* C26: after make_move(m) the en passant target is the square midway
\* between origin and destination when m is an advance of a pawn by two
\* squares, and empty otherwise; so get_valid_moves lists a move flagged
\* en passant only when the move executed just before was the advance by two
\* of an enemy pawn that now stands beside the capturing pawn, and one ply
\* later the opportunity is gone
EnPassantWindow ==
    /\ last_call = "make_move" =>
          game_state.en_passant_possible =
              IF TwoSquareAdvance(LastMove)
              THEN <<(LastMove.start_row + LastMove.end_row) \div 2, LastMove.start_column>>
              ELSE <<>>
    /\ last_call = "get_valid_moves" =>
          \A k \in 1..Len(valid_moves) :
              valid_moves[k].is_en_passant_move =>
                  /\ game_state.move_log # <<>>
                  /\ TwoSquareAdvance(LastMove)
                  /\ LastMove.piece_moved = PieceOf(Other(SideToMove), "P")
                  /\ game_state.board[LastMove.end_row][LastMove.end_column]
                        = LastMove.piece_moved
                  /\ LastMove.end_row = valid_moves[k].start_row
                  /\ LastMove.end_column = valid_moves[k].end_column
                  /\ Abs(LastMove.end_column - valid_moves[k].start_column) = 1

\* an en passant capture is listed right after the advance by two of the
\* pawn beside the capturing one
EnPassantInWindow ==
    /\ last_call = "get_valid_moves"
    /\ game_state.move_log # <<>>
    /\ TwoSquareAdvance(LastMove)
    /\ \E k \in 1..Len(valid_moves) :
          /\ valid_moves[k].is_en_passant_move
          /\ <<valid_moves[k].end_row, valid_moves[k].end_column>>
                = game_state.en_passant_possible


\* the fields of game state s that are not transient results of the analysis
Lasting(s) ==
    [board |-> s.board,
     white_to_move |-> s.white_to_move,
     white_king_location |-> s.white_king_location,
     black_king_location |-> s.black_king_location,
     en_passant_possible |-> s.en_passant_possible,
     white_castle_king_side |-> s.white_castle_king_side,
     white_castle_queen_side |-> s.white_castle_queen_side,
     black_castle_king_side |-> s.black_castle_king_side,
     black_castle_queen_side |-> s.black_castle_queen_side,
     move_log |-> s.move_log,
     en_passant_possible_log |-> s.en_passant_possible_log,
     castle_rights_log |-> s.castle_rights_log]

\* C27: get_valid_moves changes only in_check, pins, checks, checkmate and
\* stalemate: on return the board, the side to move, both cached king
\* coordinates, the en passant target, the castle rights and the three logs
\* are as before the call, also after the probes of the king's destinations
\* that overwrite the king cache
GetValidMovesFrame ==
    [][last_call' = "get_valid_moves" => Lasting(game_state') = Lasting(game_state)]_vars

\* the list was derived for a king in check and holds a move of the king, so
\* the king cache was overwritten by the probes
KingProbedInCheck ==
    /\ last_call = "get_valid_moves"
    /\ game_state.in_check
    /\ \E k \in 1..Len(valid_moves) :
          /\ valid_moves[k].piece_moved = PieceOf(SideToMove, "K")
          /\ <<valid_moves[k].start_row, valid_moves[k].start_column>> = KingToMove


\* the squares beside square king that get_king_moves probes on board b for
\* the side colour: on the board and not occupied by a piece of that side
ProbedSquares(b, king, colour) ==
    {sq \in Squares :
        /\ sq # king
        /\ Abs(sq[1] - king[1]) <= 1
        /\ Abs(sq[2] - king[2]) <= 1
        /\ Colour(b[sq[1]][sq[2]]) # colour}

\* the test of get_king_moves for destination sq: the analyzer reports a
\* check with the king cache of the side to move set to sq
ProbeInCheck(s, sq) ==
    check_for_pins_and_checks(s.board, s.white_to_move,
                              IF s.white_to_move THEN sq ELSE s.white_king_location,
                              IF s.white_to_move THEN s.black_king_location ELSE sq).in_check

\* C28: for every square beside the king of the side to move that is empty
\* or holds an enemy piece, square_under_attack for the side to move is true
\* exactly when check_for_pins_and_checks reports a check with the king
\* cache moved to that square, also for a square on the ray of an attacking
\* piece right behind the king
AttackTestsAgree ==
    \A sq \in ProbedSquares(game_state.board, KingToMove, SideToMove) :
        square_under_attack(game_state.board, game_state.white_to_move,
                            sq[1], sq[2], SideToMove)
            <=> ProbeInCheck(game_state, sq)


(***************************************************************************)
(* The loop of ChessMain.main.  A frame computes human_turn and            *)
(* extra_action, handles the events of the queue one after the other, lets *)
(* the AI move, derives valid_moves again when move_made is set and sets   *)
(* game_over.  One action per event handler takes an event off the queue;  *)
(* FrameEnd is the rest of the frame together with the start of the next   *)
(* one, up to its event loop.  An event whose handler changes nothing is a *)
(* stuttering step.  A mouse position is the button or the square it hits. *)
(* The timers, the drawing and the animation change none of the variables  *)
(* below.  ChessAI is not part of the sources: find_best_move and          *)
(* find_random_move are taken to return an element of the list passed, and *)
(* to raise on an empty list, which ends the program.                      *)
(***************************************************************************)
\* number of events handled before the run stops being explored
MaxEvents == 5

\* the squares (row, column) clicked on: e2, e4, g1, c1, a1, d1
ClickedSquares == {<<6, 4>>, <<4, 4>>, <<7, 6>>, <<7, 2>>, <<7, 0>>, <<7, 3>>}

\* Human plays White
player_one == TRUE

\* Human plays Black
player_two == FALSE

\* human_turn of a frame
HumanTurn(s) ==
    (s.white_to_move /\ player_one) \/ (~s.white_to_move /\ player_two)

\* extra_action of a frame, "None" for None; extra_btn is set with it
ExtraAction(s, square_selected, human_turn) ==
    IF square_selected # <<>> /\ human_turn
    THEN LET piece == s.board[square_selected[1]][square_selected[2]]
         IN  IF \/ Colour(piece) = "w" /\ s.white_to_move /\ player_one
                \/ Colour(piece) = "b" /\ ~s.white_to_move /\ player_two
             THEN CASE Kind(piece) = "P" -> "Starve"
                    [] Kind(piece) = "N" -> "Mimic"
                    [] Kind(piece) = "B" -> "Detonate"
                    [] Kind(piece) = "R" -> "Defect"
                    [] OTHER -> "Teleswap"
             ELSE "None"
    ELSE "None"

\* 'w' if piece.startswith('w') else 'b'
ColorOf(piece) == IF Colour(piece) = "w" THEN "w" ELSE "b"

\* the fallen stacks after target was appended to the stack of its colour
\* (if target[0] == 'w': fallen_white.append(target) else: fallen_black...)
Fallen(locals, target) ==
    IF Colour(target) = "w"
    THEN [locals EXCEPT !.fallen_white = Append(@, target)]
    ELSE [locals EXCEPT !.fallen_black = Append(@, target)]

\* the record of a captured piece before make_move
CaptureRecorded(locals, captured) ==
    IF captured # "--" /\ Kind(captured) # "K" THEN Fallen(locals, captured) ELSE locals

\* the end of an ability handler on the object s:
\* square_selected = (); player_clicks = []; valid_moves = get_valid_moves()
AbilityDone(s, locals, button) ==
    /\ main.events < MaxEvents
    /\ \E after \in {get_valid_moves(s)} :
          /\ game_state' = after.object
          /\ valid_moves' = after.returned
    /\ main' = [locals EXCEPT !.square_selected = <<>>,
                              !.player_clicks = <<>>,
                              !.event = <<"MOUSEBUTTONDOWN", button>>,
                              !.events = @ + 1]
    /\ last_call' = "get_valid_moves"

\* a click on End Turn
ClickEndTurn ==
    /\ main.events < MaxEvents
    /\ main.pending_move # <<>> /\ main.human_turn /\ ~main.game_over
    /\ game_state' = make_move(game_state, main.pending_move[1])
    /\ main' = [CaptureRecorded(main, main.pending_move[1].piece_captured)
                  EXCEPT !.pending_move = <<>>,
                         !.move_made = TRUE,
                         !.square_selected = <<>>,
                         !.player_clicks = <<>>,
                         !.event = <<"MOUSEBUTTONDOWN", "end_btn">>,
                         !.events = @ + 1]
    /\ last_call' = "make_move"
    /\ UNCHANGED valid_moves

\* a click on the extra button of the frame when it reads Starve
ClickStarve ==
    /\ main.extra_action = "Starve"
    /\ main.square_selected # <<>>
    /\ \E r \in {main.square_selected[1]}, c \in {main.square_selected[2]} :
          /\ Kind(game_state.board[r][c]) = "P"
          /\ AbilityDone([game_state EXCEPT !.board = SetSquare(@, r, c, "--")],
                         Fallen(main, game_state.board[r][c]), "Starve")


\* a click on the extra button of the frame when it reads Mimic
ClickMimic ==
    /\ main.events < MaxEvents
    /\ main.extra_action = "Mimic"
    /\ main.square_selected # <<>>
    /\ \E r \in {main.square_selected[1]}, c \in {main.square_selected[2]} :
          \E color \in {ColorOf(game_state.board[r][c])} :
              \E stack \in {IF color = "w" THEN main.fallen_white ELSE main.fallen_black} :
                  IF Len(stack) = 0
                  THEN /\ main' = [main EXCEPT !.square_selected = <<>>,
                                               !.player_clicks = <<>>,
                                               !.event = <<"MOUSEBUTTONDOWN", "Mimic">>,
                                               !.events = @ + 1]
                       /\ UNCHANGED <<game_state, valid_moves, last_call>>
                  ELSE /\ Kind(game_state.board[r][c]) = "N"
                       /\ AbilityDone(
                              [game_state EXCEPT !.board = SetSquare(@, r, c, stack[Len(stack)])],
                              IF color = "w"
                              THEN [main EXCEPT !.fallen_white = Append(Pop(stack), "wN")]
                              ELSE [main EXCEPT !.fallen_black = Append(Pop(stack), "bN")],
                              "Mimic")

\* the squares of the 3x3 block centred on (r, c), in the order of the loops
Block3x3(r, c) ==
    [k \in 1..9 |-> <<r + ((k - 1) \div 3) - 1, c + ((k - 1) % 3) - 1>>]

\* the entries of a list of squares that are on the board and hold a piece
Occupied(b, squares) ==
    LET Holds(sq) == OnBoard(sq[1], sq[2]) /\ b[sq[1]][sq[2]] # "--"
    IN  SelectSeq(squares, Holds)

\* the pieces of the given colours on a list of occupied squares, kings left out
Blasted(b, targets, colours) ==
    LET Hit(sq) == Kind(b[sq[1]][sq[2]]) # "K" /\ Colour(b[sq[1]][sq[2]]) \in colours
        hits == SelectSeq(targets, Hit)
    IN  [k \in 1..Len(hits) |-> b[hits[k][1]][hits[k][2]]]

\* a click on the extra button of the frame when it reads Detonate: every
\* piece of the block but a king is removed and recorded as fallen
ClickDetonate ==
    /\ main.extra_action = "Detonate"
    /\ main.square_selected # <<>>
    /\ \E targets \in {Occupied(game_state.board,
                                Block3x3(main.square_selected[1], main.square_selected[2]))} :
          AbilityDone(
              [game_state EXCEPT
                  !.board = [row \in 0..7 |-> [column \in 0..7 |->
                                IF /\ \E k \in 1..Len(targets) : targets[k] = <<row, column>>
                                   /\ Kind(@[row][column]) # "K"
                                THEN "--"
                                ELSE @[row][column]]],
                  !.in_check = IF \E k \in 1..Len(targets) :
                                      Kind(game_state.board[targets[k][1]][targets[k][2]]) = "K"
                               THEN TRUE
                               ELSE @],
              [main EXCEPT
                  !.fallen_white = @ \o Blasted(game_state.board, targets, {"w"}),
                  !.fallen_black = @ \o Blasted(game_state.board, targets, {"b"})],
              "Detonate")

\* the eight adjacent squares in the order of the loop
Adjacent(r, c) ==
    <<<<r - 1, c - 1>>, <<r - 1, c>>, <<r - 1, c + 1>>, <<r, c - 1>>,
      <<r, c + 1>>, <<r + 1, c - 1>>, <<r + 1, c>>, <<r + 1, c + 1>>>>

\* stack.remove(needed): the list without its first entry equal to needed
StackRemoved(stack, needed) ==
    LET first == Min({k \in 1..Len(stack) : stack[k] = needed})
    IN  SubSeq(stack, 1, first - 1) \o SubSeq(stack, first + 1, Len(stack))

\* one pass of the loop of Defect: an adjacent enemy pawn, knight or bishop
\* is replaced by a fallen piece of the same kind, if there is one
DefectStep(acc, color, sq) ==
    LET target == acc.board[sq[1]][sq[2]]
        needed == PieceOf(color, Kind(target))
        stack == IF color = "w" THEN acc.locals.fallen_white ELSE acc.locals.fallen_black
        recorded == Fallen(acc.locals, target)
    IN  IF /\ target # "--"
           /\ Colour(target) # color
           /\ Kind(target) \in {"P", "N", "B"}
           /\ \E k \in 1..Len(stack) : stack[k] = needed
        THEN [board |-> SetSquare(acc.board, sq[1], sq[2], needed),
              locals |-> IF color = "w"
                         THEN [recorded EXCEPT !.fallen_white = StackRemoved(@, needed)]
                         ELSE [recorded EXCEPT !.fallen_black = StackRemoved(@, needed)]]
        ELSE acc

RECURSIVE DefectLoop(_, _, _, _)
\* the passes n..Len(squares) of the loop of Defect
DefectLoop(acc, color, squares, n) ==
    IF n > Len(squares)
    THEN acc
    ELSE DefectLoop(DefectStep(acc, color, squares[n]), color, squares, n + 1)

\* a click on the extra button of the frame when it reads Defect
ClickDefect ==
    /\ main.extra_action = "Defect"
    /\ main.square_selected # <<>>
    /\ \E r \in {main.square_selected[1]}, c \in {main.square_selected[2]} :
          \E done \in {DefectLoop([board |-> game_state.board, locals |-> main],
                                  ColorOf(game_state.board[r][c]),
                                  Occupied(game_state.board, Adjacent(r, c)), 1)} :
              AbilityDone([game_state EXCEPT !.board = done.board], done.locals, "Defect")

\* the first square, row by row, that holds piece: <<>> when there is none
FirstSquareOf(b, piece) ==
    LET found == {n \in 0..63 : b[n \div 8][n % 8] = piece}
    IN  IF found = {} THEN <<>> ELSE <<Min(found) \div 8, Min(found) % 8>>

\* a click on the extra button of the frame when it reads Teleswap: the
\* selected piece changes places with the king or queen of its colour
ClickTeleswap ==
    /\ main.extra_action = "Teleswap"
    /\ main.square_selected # <<>>
    /\ \E r \in {main.square_selected[1]}, c \in {main.square_selected[2]} :
          \E other_loc \in {FirstSquareOf(game_state.board,
                                PieceOf(ColorOf(game_state.board[r][c]),
                                        IF Kind(game_state.board[r][c]) = "K" THEN "Q" ELSE "K"))} :
              AbilityDone(
                  IF other_loc # <<>>
                  THEN [game_state EXCEPT
                           !.board = SetSquare(SetSquare(@, other_loc[1], other_loc[2], @[r][c]),
                                               r, c, @[other_loc[1]][other_loc[2]])]
                  ELSE game_state,
                  main, "Teleswap")


\* a click on the square (row, column) of the board; the second click of a
\* pair constructs Move(player_clicks[0], player_clicks[1], board) and makes
\* the first equal entry of valid_moves the pending move
ClickBoard(row, column) ==
    /\ main.events < MaxEvents
    /\ main.human_turn /\ ~main.game_over
    /\ OnBoard(row, column)
    /\ \E clicks \in {IF main.square_selected = <<row, column>>
                      THEN <<>>
                      ELSE Append(main.player_clicks, <<row, column>>)} :
          IF Len(clicks) = 2
          THEN \E matches \in {{i \in 1..Len(valid_moves) :
                                   MoveEq(PlainMove(clicks[1], clicks[2], game_state.board),
                                          valid_moves[i])}} :
                  main' = [main EXCEPT
                              !.pending_move = IF matches = {}
                                               THEN @
                                               ELSE <<valid_moves[Min(matches)]>>,
                              !.square_selected = <<>>,
                              !.player_clicks = <<>>,
                              !.event = <<"MOUSEBUTTONDOWN", row, column>>,
                              !.events = @ + 1]
          ELSE main' = [main EXCEPT
                           !.square_selected = IF clicks = <<>> THEN <<>> ELSE <<row, column>>,
                           !.player_clicks = clicks,
                           !.event = <<"MOUSEBUTTONDOWN", row, column>>,
                           !.events = @ + 1]
    /\ UNCHANGED <<game_state, valid_moves, last_call>>

\* the key z: undo, only if there is no pending move
KeyUndo ==
    /\ main.events < MaxEvents
    /\ main.pending_move = <<>>
    /\ game_state' = undo_move(game_state)
    /\ main' = [main EXCEPT !.move_made = TRUE,
                            !.game_over = FALSE,
                            !.event = <<"KEYDOWN", "K_z">>,
                            !.events = @ + 1]
    /\ last_call' = "undo_move"
    /\ UNCHANGED valid_moves

\* the key r: a new GameState, and every local variable as before the loop
KeyReset ==
    /\ main.events < MaxEvents
    /\ \E after \in {get_valid_moves(NewGameState)} :
          /\ game_state' = after.object
          /\ valid_moves' = after.returned
    /\ main' = [MainLocals EXCEPT !.human_turn = main.human_turn,
                                  !.extra_action = main.extra_action,
                                  !.event = <<"KEYDOWN", "K_r">>,
                                  !.events = main.events + 1]
    /\ last_call' = "get_valid_moves"

\* the AI moves in this frame
AITurn == ~main.game_over /\ ~main.human_turn /\ main.pending_move = <<>>

\* the moves ChessAI.find_best_move(game_state, valid_moves) may return, or
\* ChessAI.find_random_move(valid_moves) when it returns None
find_best_move(s, moves) == {moves[k] : k \in 1..Len(moves)}

\* the rest of a frame after its events, where AI_move is <<>> when the AI
\* does not move in this frame, and the start of the next frame
FrameEndWith(AI_move) ==
    \E moved \in {IF AI_move = <<>> THEN game_state ELSE make_move(game_state, AI_move[1])} :
        \E after \in {IF AI_move # <<>> \/ main.move_made
                      THEN get_valid_moves(moved)
                      ELSE [object |-> moved, returned |-> valid_moves]} :
            /\ game_state' = after.object
            /\ valid_moves' = after.returned
            /\ last_call' = IF AI_move # <<>> \/ main.move_made
                            THEN "get_valid_moves"
                            ELSE last_call
            /\ main' = [(IF AI_move = <<>> THEN main
                         ELSE CaptureRecorded(main, AI_move[1].piece_captured))
                          EXCEPT
                            !.move_made = FALSE,
                            !.game_over = @ \/ after.object.checkmate \/ after.object.stalemate,
                            !.human_turn = HumanTurn(after.object),
                            !.extra_action = ExtraAction(after.object, main.square_selected,
                                                         HumanTurn(after.object))]

\* the end of the events of a frame
FrameEnd ==
    IF AITurn
    THEN \E AI_move \in find_best_move(game_state, valid_moves) : FrameEndWith(<<AI_move>>)
    ELSE FrameEndWith(<<>>)

\* main up to the event loop of its first frame
MainInit ==
    /\ \E after \in {get_valid_moves(NewGameState)} :
          /\ game_state = after.object
          /\ valid_moves = after.returned
    /\ last_call = "get_valid_moves"
    /\ main = MainLocals

MainNext ==
    \/ ClickEndTurn
    \/ ClickStarve
    \/ ClickMimic
    \/ ClickDetonate
    \/ ClickDefect
    \/ ClickTeleswap
    \/ \E square \in ClickedSquares : ClickBoard(square[1], square[2])
    \/ KeyUndo
    \/ KeyReset
    \/ FrameEnd

MainSpec == MainInit /\ [][MainNext]_vars


\* C29: whatever the order of clicks, keys and AI turns, every move the main
\* loop hands to make_move is an entry of the legal-move list of the object
\* as it is at the moment of the call
AppliedMovesAreLegal ==
    [][Len(game_state'.move_log) = Len(game_state.move_log) + 1
          => \E legal \in {get_valid_moves(game_state).returned} :
                \E k \in 1..Len(legal) :
                    MoveEq(legal[k], game_state'.move_log[Len(game_state'.move_log)])]_vars

\* C30: a second click that completes a pair of squares equal to no entry of
\* valid_moves applies no move and leaves no pending move behind
UnmatchedPairLeavesNoPendingMove ==
    [][\A sq \in ClickedSquares :
          (/\ main'.event = <<"MOUSEBUTTONDOWN", sq[1], sq[2]>>
           /\ main'.events = main.events + 1
           /\ Len(main.player_clicks) = 1
           /\ main.square_selected # sq
           /\ \A i \in 1..Len(valid_moves) :
                 ~MoveEq(PlainMove(main.player_clicks[1], sq, game_state.board),
                         valid_moves[i]))
          => /\ game_state' = game_state
             /\ main'.pending_move = <<>>]_vars


\* C31: undo_move on a non-empty move log leaves checkmate and stalemate
\* false, whatever they were and whatever the position it returns to, and
\* make_move leaves both flags as they were
FlagsAcrossUndoAndMove ==
    [][/\ (last_call' = "undo_move" /\ game_state.move_log # <<>>)
             => ~game_state'.checkmate /\ ~game_state'.stalemate
       /\ last_call' = "make_move"
             => /\ game_state'.checkmate = game_state.checkmate
                /\ game_state'.stalemate = game_state.stalemate]_vars

\* the mating move of the fool's mate was taken back after get_valid_moves
\* had found the mate: in_check is still set, checkmate is not
MateTakenBack ==
    /\ last_call = "undo_move"
    /\ Ids(game_state.move_log) = SubSeq(FoolsMateLine, 1, 3)
    /\ game_state.in_check
    /\ ~game_state.checkmate
    /\ ~game_state.stalemate


\* the entries of a list
Entries(list) == {list[k] : k \in 1..Len(list)}

\* C32: a call of get_valid_moves that follows another one directly returns
\* the same moves, coordinates and flags, and leaves in_check, checkmate and
\* stalemate as the first call left them
GetValidMovesIdempotent ==
    [][(last_call = "get_valid_moves" /\ last_call' = "get_valid_moves")
          => /\ Entries(valid_moves') = Entries(valid_moves)
             /\ game_state'.in_check = game_state.in_check
             /\ game_state'.checkmate = game_state.checkmate
             /\ game_state'.stalemate = game_state.stalemate]_vars

\* the list was derived for a position with a pinned piece, whose pin entry
\* its generator has removed from the shared list
PinEntryConsumed ==
    /\ last_call = "get_valid_moves"
    /\ valid_moves # <<>>
    /\ Len(game_state.pins) < Len(check_for_pins_and_checks(game_state.board,
                                      game_state.white_to_move,
                                      game_state.white_king_location,
                                      game_state.black_king_location).pins)


\* no two entries of a list of moves are equal for Move.__eq__
DistinctKeys(moves) ==
    \A i \in 1..Len(moves) : \A j \in 1..Len(moves) :
        i # j => ~MoveEq(moves[i], moves[j])

\* the list of get_all_possible_moves that the single-check filter of
\* lines 164-167 works on
Unfiltered(s) ==
    get_all_possible_moves(GenView(s),
        [moves |-> <<>>,
         pins |-> check_for_pins_and_checks(s.board, s.white_to_move,
                      s.white_king_location, s.black_king_location).pins,
         white_king_location |-> s.white_king_location,
         black_king_location |-> s.black_king_location]).moves

\* C33: the legal-move list holds no two moves with the same origin and
\* destination, and neither does the list the single-check filter removes
\* entries from by equality
UniqueMoveKeys ==
    last_call = "get_valid_moves"
        => /\ DistinctKeys(valid_moves)
           /\ (game_state.in_check /\ Len(game_state.checks) = 1)
                 => DistinctKeys(Unfiltered(game_state))

\* a queen has moves along a file or rank and along a diagonal
QueenBothWays(moves) ==
    /\ \E k \in 1..Len(moves) :
          /\ Kind(moves[k].piece_moved) = "Q"
          /\ moves[k].start_row # moves[k].end_row
          /\ moves[k].start_column # moves[k].end_column
    /\ \E k \in 1..Len(moves) :
          /\ Kind(moves[k].piece_moved) = "Q"
          /\ \/ moves[k].start_row = moves[k].end_row
             \/ moves[k].start_column = moves[k].end_column

\* in a single check the filter has removed entries from a list that held
\* moves of a queen from both generators
QueenMovesFiltered ==
    /\ last_call = "get_valid_moves"
    /\ game_state.in_check
    /\ Len(game_state.checks) = 1
    /\ QueenBothWays(Unfiltered(game_state))
    /\ valid_moves # <<>>
    /\ Len(valid_moves) < Len(Unfiltered(game_state))


\* C34: white_to_move holds exactly when the move log has an even length,
\* and the moves of the log were made by White and Black in turn, White
\* first
TurnParity ==
    /\ game_state.white_to_move <=> Len(game_state.move_log) % 2 = 0
    /\ \A k \in 1..Len(game_state.move_log) :
          Colour(game_state.move_log[k].piece_moved) = IF k % 2 = 1 THEN "w" ELSE "b"


\* C35: en_passant_possible is the last entry of en_passant_possible_log,
\* and when it is not empty the target square is empty, the last move of the
\* log is an advance of a pawn by two squares over the target, and that pawn
\* stands on the square next to the target in its direction of travel
EnPassantBookkeeping ==
    /\ game_state.en_passant_possible_log # <<>>
    /\ game_state.en_passant_possible
          = game_state.en_passant_possible_log[Len(game_state.en_passant_possible_log)]
    /\ game_state.en_passant_possible # <<>> =>
          /\ game_state.board[game_state.en_passant_possible[1]]
                             [game_state.en_passant_possible[2]] = "--"
          /\ game_state.move_log # <<>>
          /\ TwoSquareAdvance(LastMove)
          /\ LastMove.start_column = game_state.en_passant_possible[2]
          /\ LastMove.end_column = game_state.en_passant_possible[2]
          /\ LastMove.end_row = game_state.en_passant_possible[1]
                                  + Sign(LastMove.end_row - LastMove.start_row)
          /\ game_state.board[LastMove.end_row][LastMove.end_column] = LastMove.piece_moved

\* undo_move has taken back the reply to an advance by two squares and has
\* read the target of the advance back from the log
EnPassantTargetRestored ==
    /\ last_call = "undo_move"
    /\ game_state.en_passant_possible # <<>>
    /\ Len(game_state.en_passant_possible_log) = Len(game_state.move_log) + 1


\* the number of rooks of a colour on the board
Rooks(colour) ==
    Cardinality({sq \in (0..7) \X (0..7) :
                    game_state.board[sq[1]][sq[2]] = colour \o "R"})

\* C36: each side has at most two rooks on the board
RookCap == \A colour \in {"w", "b"} : Rooks(colour) <= 2

\* a promotion has brought a side that had lost a rook back to two rooks
SecondRookByPromotion ==
    /\ last_call = "make_move"
    /\ LastMove.is_pawn_promotion
    /\ Rooks(Colour(LastMove.piece_moved)) = 2

\* C37: no pawn stands on row 0 or on row 7
NoPawnOnBackRank ==
    \A row \in {0, 7}, column \in 0..7 :
        game_state.board[row][column] \notin {"wP", "bP"}

====
